---- MODULE Spec2Model ----
(***************************************************************************)
(* Model of dgocacheler's MessageCache (message_cache.go): a directory of  *)
(* per-channel circular buffers with duplicate tracking.                    *)
(*                                                                         *)
(* Spec     : the public methods called one after another (each call is    *)
(*            one step), on a cache built by NewMessageCache.              *)
(* SpecConc : goroutines calling AddMessage concurrently, one step per     *)
(*            lock operation / critical section.                           *)
(* SpecArgs : the public methods called one after another with the        *)
(*            arguments they accept and those they refuse (empty channel   *)
(*            id, nil record, limit or capacity that is not positive).     *)
(* SpecRace : goroutines calling any method concurrently on a cache that   *)
(*            holds records; reads made outside a lock are steps of their  *)
(*            own.                                                         *)
(* SpecGlobal : goroutines calling GetGlobalCache and using the cache it   *)
(*            returns.                                                     *)
(* SpecCompat : the package initialised with depreciated.go; goroutines    *)
(*            using the variable Cache or GetGlobalCache.                  *)
(* SpecWrap : the methods of Spec on a cache built with any positive int,  *)
(*            also above the int32 range, next to the OldMessageCache of   *)
(*            v0.1.1 given the same calls.                                 *)
(***************************************************************************)
EXTENDS Integers, Sequences, FiniteSets, TLC

\* ------------------------------------------------------------------ bounds
NumIds == 3        \* message ids are 1..NumIds
MaxCap == 2        \* capacities passed to NewMessageCache / SetMaxMessages
MaxBatch == 2      \* longest slice passed to AddMessages
MaxCalls == 3      \* number of state-changing calls in a run of Spec
MaxWrap == 1       \* NewMessageCache arguments reach MaxWrap * 2^32 + MaxCap
NumThreads == 2    \* goroutines in SpecConc

\* --------------------------------------------------------- program values
DefaultMaxMessages == 100

ErrNone == "nil"
ErrNilMessage == "ErrNilMessage"
ErrInvalidChannel == "ErrInvalidChannel"
ErrCacheMiss == "ErrCacheMiss"
ErrInvalidLimit == "ErrInvalidLimit"

\* A nil *discordgo.Message.
Nil == [ID |-> 0, Content |-> 0]

\* The records callers hand in: one per id, plus a second record carrying
\* id 1 with another content (a different object with an id already used).
Messages == [ID : 1..NumIds, Content : {0}] \cup {[ID |-> 1, Content |-> 1]}

\* Channel ids used by callers; "" is the invalid one.
Keys == {"a", "b"}
\* Under Spec callers insert into channel "a" only; "b" is a channel that is
\* looked up, read and cleared but never created.
InsertKeys == {"a"}
AllKeys == Keys \cup {""}

Min(a, b) == IF a < b THEN a ELSE b

\* int32(n): conversion of an int to the 32-bit field MessageCache.maxMessages.
\* Values above the largest int32 wrap to the negative range (one wrap, which
\* covers arguments below 3 * 2^31); values that fit are kept.
Int32Max == 2147483647
Int32(n) ==
    IF n > Int32Max THEN ((n - Int32Max) - 1) + ((-Int32Max) - 1)
    ELSE IF n < (-Int32Max) - 1 THEN ((n + Int32Max) + 1) + Int32Max + 1
    ELSE n

\* make([]*discordgo.Message, n): n nil slots, indexed from 0 as in the source.
MakeSlots(n) == [i \in 0..(n - 1) |-> Nil]

\* s[lo:hi] of a slot array, as a sequence.
Slice(s, lo, hi) == [i \in 1..(hi - lo) |-> s[lo + i - 1]]

\* The ChannelCache literal built by AddMessage / AddMessages.
NewChannelCache(maxMsgs) ==
    [messages |-> MakeSlots(maxMsgs), messageIDs |-> {}, head |-> 0,
     size |-> 0, maxMessages |-> maxMsgs]

\* NewMessageCache: the value stored in MessageCache.maxMessages.
NewMessageCache(n) == Int32(IF n <= 0 THEN DefaultMaxMessages ELSE n)

\* An int of a 64-bit build, written hi * 2^32 + lo with lo in the int32
\* range. int32(v) keeps the low 32 bits, which is lo.
GoInt(hi, lo) == [hi |-> hi, lo |-> lo]
IsPositive(v) == v.hi > 0 \/ (v.hi = 0 /\ v.lo > 0)
Int32Of(v) == v.lo

\* NewMessageCache for an argument of the whole int range.
NewMessageCacheOf(v) ==
    IF v.hi = 0 THEN NewMessageCache(v.lo)
    ELSE IF ~IsPositive(v) THEN DefaultMaxMessages
    ELSE Int32Of(v)

\* ------------------------------------------------- per-channel algorithms
\* The logical window of a buffer: slots[(head+i) mod capacity], i in [0,size).
Window(ch) ==
    [i \in 1..ch.size |-> ch.messages[(ch.head + (i - 1)) % ch.maxMessages]]

IdsOf(seq) == {seq[i].ID : i \in 1..Len(seq)}

\* Variant of AddMessageLocked: a buffer that is not full is written at head
\* instead of at head + size.
AddMessageLocked_AtHead(ch, message) ==
    IF message.ID \in ch.messageIDs
    THEN ch
    ELSE LET ids == ch.messageIDs \cup {message.ID} IN
         IF ch.size < ch.maxMessages
         THEN [ch EXCEPT !.messageIDs = ids,
                         !.messages[ch.head] = message,
                         !.size = ch.size + 1]
         ELSE [ch EXCEPT !.messageIDs = ids,
                         !.messages[ch.head] = message,
                         !.head = (ch.head + 1) % ch.maxMessages]

\* Variant of AddMessageLocked: no duplicate check.
AddMessageLocked_NoDupCheck(ch, message) ==
    LET ids == ch.messageIDs \cup {message.ID} IN
    IF ch.size < ch.maxMessages
    THEN LET insertIdx == (ch.head + ch.size) % ch.maxMessages IN
         [ch EXCEPT !.messageIDs = ids,
                    !.messages[insertIdx] = message,
                    !.size = ch.size + 1]
    ELSE [ch EXCEPT !.messageIDs = ids,
                    !.messages[ch.head] = message,
                    !.head = (ch.head + 1) % ch.maxMessages]

\* AddMessage, the part run under the channel's lock (duplicate check, id
\* recording, placement in the circular buffer).
AddMessageLocked(ch, message) ==
    IF message.ID \in ch.messageIDs
    THEN ch
    ELSE LET ids == ch.messageIDs \cup {message.ID} IN
         IF ch.size < ch.maxMessages
         THEN LET insertIdx == (ch.head + ch.size) % ch.maxMessages IN
              [ch EXCEPT !.messageIDs = ids,
                         !.messages[insertIdx] = message,
                         !.size = ch.size + 1]
         ELSE [ch EXCEPT !.messageIDs = ids,
                         !.messages[ch.head] = message,
                         !.head = (ch.head + 1) % ch.maxMessages]

\* Variant of AddMessagesItem: no duplicate check.
AddMessagesItem_NoDupCheck(ch, message) ==
    IF message = Nil
    THEN ch
    ELSE LET ids == ch.messageIDs \cup {message.ID}
             maxMsgs == ch.maxMessages
         IN
         IF ch.size < maxMsgs
         THEN LET insertIdx == (ch.head + ch.size) % maxMsgs IN
              [ch EXCEPT !.messageIDs = ids,
                         !.messages[insertIdx] = message,
                         !.size = ch.size + 1]
         ELSE LET oldestMsg == ch.messages[ch.head] IN
              [ch EXCEPT !.messageIDs =
                             IF oldestMsg # Nil THEN ids \ {oldestMsg.ID} ELSE ids,
                         !.messages[ch.head] = message,
                         !.head = (ch.head + 1) % maxMsgs]

\* AddMessages, one iteration of the loop over the slice.
AddMessagesItem(ch, message) ==
    IF message = Nil
    THEN ch
    ELSE IF message.ID \in ch.messageIDs
    THEN ch
    ELSE LET ids == ch.messageIDs \cup {message.ID}
             maxMsgs == ch.maxMessages
         IN
         IF ch.size < maxMsgs
         THEN LET insertIdx == (ch.head + ch.size) % maxMsgs IN
              [ch EXCEPT !.messageIDs = ids,
                         !.messages[insertIdx] = message,
                         !.size = ch.size + 1]
         ELSE LET oldestMsg == ch.messages[ch.head] IN
              [ch EXCEPT !.messageIDs =
                             IF oldestMsg # Nil THEN ids \ {oldestMsg.ID} ELSE ids,
                         !.messages[ch.head] = message,
                         !.head = (ch.head + 1) % maxMsgs]

\* AddMessages, the loop run under the channel's lock.
RECURSIVE AddMessagesLocked(_, _)
AddMessagesLocked(ch, messages) ==
    IF messages = << >>
    THEN ch
    ELSE AddMessagesLocked(AddMessagesItem(ch, Head(messages)), Tail(messages))

\* Variant of GetMessagesFrom: the first size slots, whatever head is.
GetMessagesFrom_IgnoreHead(messages, head, size, maxMsgs) ==
    Slice(messages, 0, size)

\* GetMessages, the slice built from the values read under the read lock.
GetMessagesFrom(messages, head, size, maxMsgs) ==
    IF size = 0
    THEN << >>
    ELSE IF head + size <= maxMsgs
    THEN Slice(messages, head, head + size)
    ELSE LET firstPartSize == maxMsgs - head
             secondPartSize == size - firstPartSize
         IN Slice(messages, head, maxMsgs) \o Slice(messages, 0, secondPartSize)

GetMessagesOf(ch) == GetMessagesFrom(ch.messages, ch.head, ch.size, ch.maxMessages)

\* Variant of GetMessagesUnsafeOf: the slot array is returned for every full
\* buffer, whatever head is.
GetMessagesUnsafeOf_AnyHead(ch) ==
    IF ch.size = 0
    THEN << >>
    ELSE IF ch.size = ch.maxMessages
    THEN Slice(ch.messages, 0, ch.maxMessages)
    ELSE GetMessagesOf(ch)

\* GetMessagesUnsafe on an existing channel.
GetMessagesUnsafeOf(ch) ==
    IF ch.size = 0
    THEN << >>
    ELSE IF ch.head = 0 /\ ch.size = ch.maxMessages
    THEN Slice(ch.messages, 0, ch.maxMessages)
    ELSE GetMessagesOf(ch)

\* Variant of GetMessagesLimitOf: the oldest records instead of the newest.
GetMessagesLimitOf_Oldest(ch, limit0) ==
    LET limit == IF limit0 > ch.size THEN ch.size ELSE limit0 IN
    [i \in 1..limit |-> ch.messages[(ch.head + (i - 1)) % ch.maxMessages]]

\* GetMessagesLimit on an existing channel, limit > 0.
GetMessagesLimitOf(ch, limit0) ==
    LET head == ch.head
        size == ch.size
        maxMsgs == ch.maxMessages
        messages == ch.messages
        limit == IF limit0 > size THEN size ELSE limit0
        startIdx == (head + size - limit) % maxMsgs
    IN
    IF size = 0
    THEN << >>
    ELSE IF limit = size
    THEN GetMessagesOf(ch)
    ELSE IF startIdx + limit <= maxMsgs
    THEN Slice(messages, startIdx, startIdx + limit)
    ELSE IF startIdx > head
    THEN LET firstPartSize == maxMsgs - startIdx
             secondPartSize == limit - firstPartSize
         IN Slice(messages, startIdx, maxMsgs) \o Slice(messages, 0, secondPartSize)
    ELSE [i \in 1..limit |-> messages[(startIdx + (i - 1)) % maxMsgs]]

\* Variant of ClearChannelLocked: size is not reset.
ClearChannelLocked_KeepSize(ch) ==
    [ch EXCEPT !.head = 0, !.messageIDs = {}]

\* Variant of ClearChannelLocked: the id map is not replaced.
ClearChannelLocked_KeepIds(ch) ==
    [ch EXCEPT !.head = 0, !.size = 0]

\* ClearChannel on an existing channel: the slot array is kept as it is.
ClearChannelLocked(ch) ==
    [ch EXCEPT !.head = 0, !.size = 0, !.messageIDs = {}]

\* Variant of SetMaxMessagesLocked: a shrink keeps the oldest records.
SetMaxMessagesLocked_KeepOldest(ch, maxMessages) ==
    LET newSize == IF ch.size > maxMessages THEN maxMessages ELSE ch.size
        newMessages == [i \in 0..(maxMessages - 1) |->
                          IF i < newSize
                          THEN ch.messages[(ch.head + i) % ch.maxMessages]
                          ELSE Nil]
    IN [messages |-> newMessages,
        messageIDs |-> IF maxMessages >= ch.maxMessages THEN ch.messageIDs
                       ELSE {newMessages[i].ID : i \in 0..(newSize - 1)},
        head |-> 0, size |-> newSize, maxMessages |-> maxMessages]

\* Variant of SetMaxMessagesLocked: head is not reset when the capacity does
\* not go down.
SetMaxMessagesLocked_KeepHead(ch, maxMessages) ==
    IF maxMessages >= ch.maxMessages
    THEN [ch EXCEPT
            !.messages = [i \in 0..(maxMessages - 1) |->
                            IF i < ch.size
                            THEN ch.messages[(ch.head + i) % ch.maxMessages]
                            ELSE Nil],
            !.maxMessages = maxMessages]
    ELSE LET newSize == IF ch.size > maxMessages THEN maxMessages ELSE ch.size
             startIdx == ch.size - newSize
             newMessages == [i \in 0..(maxMessages - 1) |->
                               IF i < newSize
                               THEN ch.messages[(ch.head + startIdx + i) % ch.maxMessages]
                               ELSE Nil]
         IN [messages |-> newMessages,
             messageIDs |-> {newMessages[i].ID : i \in 0..(newSize - 1)},
             head |-> 0, size |-> newSize, maxMessages |-> maxMessages]

\* Variant of SetMaxMessagesLocked: a shrink keeps the id map as it is.
SetMaxMessagesLocked_KeepIds(ch, maxMessages) ==
    LET newSize == IF ch.size > maxMessages /\ maxMessages < ch.maxMessages
                   THEN maxMessages ELSE ch.size
        startIdx == ch.size - newSize
    IN [ch EXCEPT
           !.messages = [i \in 0..(maxMessages - 1) |->
                            IF i < newSize
                            THEN ch.messages[(ch.head + startIdx + i) % ch.maxMessages]
                            ELSE Nil],
           !.head = 0,
           !.size = newSize,
           !.maxMessages = maxMessages]

\* SetMaxMessages, the body of the loop for one channel.
SetMaxMessagesLocked(ch, maxMessages) ==
    LET oldMax == ch.maxMessages
        oldSize == ch.size
        oldHead == ch.head
        oldMessages == ch.messages
    IN
    IF maxMessages >= oldMax
    THEN [ch EXCEPT
            !.messages = [i \in 0..(maxMessages - 1) |->
                            IF i < oldSize
                            THEN oldMessages[(oldHead + i) % oldMax]
                            ELSE Nil],
            !.head = 0,
            !.maxMessages = maxMessages]
    ELSE LET newSize == IF oldSize > maxMessages THEN maxMessages ELSE oldSize
             startIdx == oldSize - newSize
             newMessages == [i \in 0..(maxMessages - 1) |->
                               IF i < newSize
                               THEN oldMessages[(oldHead + startIdx + i) % oldMax]
                               ELSE Nil]
             newIDs == {newMessages[i].ID :
                           i \in {j \in 0..(newSize - 1) : newMessages[j] # Nil}}
         IN [messages |-> newMessages, messageIDs |-> newIDs, head |-> 0,
             size |-> newSize, maxMessages |-> maxMessages]

\* ------------------------------------------------------------------ state
VARIABLES
    channels,      \* MessageCache.channels: channel id -> ChannelCache
    maxMessages,   \* MessageCache.maxMessages
    call,          \* the last call made: method and arguments
    ret,           \* what that call returned: error and message slice
    ncalls,        \* number of inserting / clearing / resizing calls made
    inserted,      \* history: per channel, the records inserted since the
                   \* channel was created, or Tainted (see LogInsert)
    evicted,       \* history: per channel, the ids pushed out by an insert
                   \* into a full buffer and not stored again since
    dropped,       \* history: per channel, the ids cut off by a shrinking
                   \* SetMaxMessages and not stored again since
    cleared,       \* history: per channel, the ids removed by ClearChannel
                   \* and not stored again since
    oldCache,      \* the OldMessageCache given the calls the cache was
                   \* given, or Unrelated once a call was made that the
                   \* comparison of the two is not about
    threads,       \* SpecConc: per goroutine, the call it runs, where it is
                   \* in it and its local variables
    dir,           \* SpecConc: MessageCache.channels as channel id -> pointer
    heap,          \* SpecConc: the ChannelCache objects, by pointer (1, 2, ..)
    dirLock,       \* SpecConc: the RWMutex embedded in MessageCache
    chanLock,      \* SpecConc: the RWMutex embedded in each ChannelCache
    obs,           \* SpecRace, history: per goroutine, the contents its
                   \* channel had during its call, and the goroutines that
                   \* had returned when the call began
    globalCache,   \* SpecGlobal: the package variable globalCache
    globalCacheOnce, \* SpecGlobal: the package variable globalCacheOnce
    instances,     \* SpecGlobal: the MessageCache objects, by pointer
    Cache          \* SpecCompat: the deprecated package variable Cache, a
                   \* pointer (0 before the package is initialised)

global == <<globalCache, globalCacheOnce, instances, Cache>>
conc == <<threads, dir, heap, dirLock, chanLock, obs, global>>
vars == <<channels, maxMessages, call, ret, ncalls, inserted, evicted, dropped,
          cleared, oldCache, conc>>
cache == <<channels, maxMessages>>
history == <<inserted, evicted, dropped, cleared>>

NoChannels == [k \in {} |-> NewChannelCache(1)]

\* A call as recorded in the variable call: method, channel id, the record
\* (AddMessage) and the number (limit or capacity) passed; the slice given to
\* AddMessages is not recorded.
Call(op, key, msg, n) ==
    [op |-> op, key |-> key, msg |-> msg, n |-> n]
Ret(err, msgs) == [err |-> err, msgs |-> msgs]

\* The history stops recording (Tainted) once an id is inserted a second
\* time, or the channel is cleared or resized.
Tainted == <<Nil>>

RECURSIVE LogInsert(_, _)
LogInsert(log, messages) ==
    IF messages = << >> THEN log
    ELSE LET m == Head(messages) IN
         IF m = Nil THEN LogInsert(log, Tail(messages))
         ELSE IF log = Tainted \/ m.ID \in IdsOf(log) THEN Tainted
         ELSE LogInsert(Append(log, m), Tail(messages))

\* Ids that left the window in a step, minus those in the window now.
EvictedAfter(old, before, after) ==
    (old \cup (IdsOf(Window(before)) \ IdsOf(Window(after)))) \ IdsOf(Window(after))

\* getOrCreateChannelCache and the slow path of AddMessage / AddMessages:
\* the channel's buffer, created with the current maxMessages if missing.
GetOrCreate(k) ==
    IF k \in DOMAIN channels THEN channels[k] ELSE NewChannelCache(maxMessages)

Install(k, ch) ==
    [x \in DOMAIN channels \cup {k} |-> IF x = k THEN ch ELSE channels[x]]

\* ------------------------------------------------------ OldMessageCache
\* The append-and-trim implementation of v0.1.1 that the benchmarks compare
\* with: a map from channel id to a slice, and maxMessages, an int (written
\* as GoInt).
NewOldMessageCache(maxMsgs) == [messages |-> << >>, maxMessages |-> maxMsgs]

\* len > maxMessages for a length below 2^31 and an int maxMessages.
LongerThan(len, maxMsgs) ==
    maxMsgs.hi < 0 \/ (maxMsgs.hi = 0 /\ len > maxMsgs.lo)

\* addMessageInternal: append, then drop the first record if the slice has
\* become longer than maxMessages.
OldAddMessageInternal(c, k, message) ==
    LET was == IF k \in DOMAIN c.messages THEN c.messages[k] ELSE << >>
        appended == Append(was, message)
        now == IF LongerThan(Len(appended), c.maxMessages)
               THEN Tail(appended) ELSE appended
    IN [c EXCEPT !.messages =
           [x \in DOMAIN c.messages \cup {k} |->
               IF x = k THEN now ELSE c.messages[x]]]

OldAddMessage(c, k, message) == OldAddMessageInternal(c, k, message)

RECURSIVE OldAddMessages(_, _, _)
OldAddMessages(c, k, messages) ==
    IF messages = << >> THEN c
    ELSE OldAddMessages(OldAddMessageInternal(c, k, Head(messages)), k,
                        Tail(messages))

\* GetMessages of the old cache: the slice and whether the key exists.
OldGetMessages(c, k) ==
    IF k \in DOMAIN c.messages
    THEN [ok |-> TRUE, msgs |-> c.messages[k]]
    ELSE [ok |-> FALSE, msgs |-> << >>]

\* SetMaxMessages of the old cache: every slice longer than maxMessages is
\* cut down to its last maxMessages records.
OldSetMaxMessages(c, n) ==
    [messages |-> [k \in DOMAIN c.messages |->
                      LET messages == c.messages[k] IN
                      IF Len(messages) > n
                      THEN SubSeq(messages, Len(messages) - n + 1, Len(messages))
                      ELSE messages],
     maxMessages |-> GoInt(0, n)]

\* The value of oldCache when the calls made are no longer calls that both
\* caches are compared on.
Unrelated == NewOldMessageCache(GoInt(0, 0))
Comparable == IsPositive(oldCache.maxMessages)

\* The ids given to channel k so far, while the caches are compared.
Used(k) ==
    (IF k \in DOMAIN channels
     THEN IdsOf(Window(channels[k])) \cup evicted[k] \cup dropped[k] ELSE {})
    \cup IdsOf(OldGetMessages(oldCache, k).msgs)

\* Non-nil records with ids that differ from each other and from the ids
\* channel k was given.
FreshBatch(k, messages) ==
    /\ \A i \in 1..Len(messages) :
          messages[i] # Nil /\ messages[i].ID \notin Used(k)
    /\ \A i, j \in 1..Len(messages) : i < j => messages[i].ID # messages[j].ID

Init ==
    /\ \E hi \in 0..MaxWrap, lo \in 0..MaxCap :
          /\ hi > 0 => lo > 0
          /\ maxMessages = NewMessageCacheOf(GoInt(hi, lo))
          /\ call = Call("NewMessageCache", "", Nil, GoInt(hi, lo))
          /\ oldCache = Unrelated
    /\ channels = NoChannels
    /\ ret = Ret(ErrNone, << >>)
    /\ ncalls = 0
    /\ inserted = [k \in Keys |-> << >>]
    /\ evicted = [k \in Keys |-> {}]
    /\ dropped = [k \in Keys |-> {}]
    /\ cleared = [k \in Keys |-> {}]
    /\ threads = << >> /\ dir = << >> /\ heap = << >>
    /\ dirLock = << >> /\ chanLock = << >>
    /\ obs = << >>
    /\ globalCache = 0 /\ globalCacheOnce = 0 /\ instances = << >>
    /\ Cache = 0

\* ---------------------------------------------------------------- methods
\* What each method does when called in the current state: the error it
\* returns, the slice it returns (fetches) and the cache it leaves.
Out(err, chans, maxMsgs) == [err |-> err, channels |-> chans, maxMessages |-> maxMsgs]

\* A buffer of capacity 0 has no slot: with size < maxMessages false, the
\* first record of the call that is neither nil nor a duplicate is written
\* to messages[head] (AddMessage) or read from it (AddMessages), which is an
\* index out of range. The run-time panic leaves the method after the id of
\* that record was put into messageIDs; the deferred Unlock releases the
\* buffer's lock.
Panic == "panic: index out of range"
Fresh(ch, messages) ==
    {i \in 1..Len(messages) :
        messages[i] # Nil /\ messages[i].ID \notin ch.messageIDs}
Faults(ch, messages) == ch.maxMessages = 0 /\ Fresh(ch, messages) # {}
Faulted(ch, messages) ==
    LET first == CHOOSE i \in Fresh(ch, messages) :
                     \A j \in Fresh(ch, messages) : i <= j
    IN [ch EXCEPT !.messageIDs = @ \cup {messages[first].ID}]

\* Variant of AddMessageOut: the channel is looked up or created before the
\* record is checked.
AddMessageOut_CreateFirst(k, message) ==
    IF k = "" THEN Out(ErrInvalidChannel, channels, maxMessages)
    ELSE IF message = Nil
    THEN Out(ErrNilMessage, Install(k, GetOrCreate(k)), maxMessages)
    ELSE Out(ErrNone, Install(k, AddMessageLocked(GetOrCreate(k), message)),
             maxMessages)

AddMessageOut(k, message) ==
    IF message = Nil THEN Out(ErrNilMessage, channels, maxMessages)
    ELSE IF k = "" THEN Out(ErrInvalidChannel, channels, maxMessages)
    ELSE IF Faults(GetOrCreate(k), <<message>>)
    THEN Out(Panic, Install(k, Faulted(GetOrCreate(k), <<message>>)), maxMessages)
    ELSE Out(ErrNone, Install(k, AddMessageLocked(GetOrCreate(k), message)),
             maxMessages)

\* Variant of AddMessagesOut: the slice is looked at before the channel id.
AddMessagesOut_EmptyBatchFirst(k, messages) ==
    IF Len(messages) = 0 THEN Out(ErrNone, channels, maxMessages)
    ELSE IF k = "" THEN Out(ErrInvalidChannel, channels, maxMessages)
    ELSE Out(ErrNone, Install(k, AddMessagesLocked(GetOrCreate(k), messages)),
             maxMessages)

\* Variant of AddMessagesOut: the channel is looked up or created whatever
\* the length of the slice.
AddMessagesOut_CreateFirst(k, messages) ==
    IF k = "" THEN Out(ErrInvalidChannel, channels, maxMessages)
    ELSE Out(ErrNone, Install(k, AddMessagesLocked(GetOrCreate(k), messages)),
             maxMessages)

AddMessagesOut(k, messages) ==
    IF k = "" THEN Out(ErrInvalidChannel, channels, maxMessages)
    ELSE IF Len(messages) = 0 THEN Out(ErrNone, channels, maxMessages)
    ELSE IF Faults(GetOrCreate(k), messages)
    THEN Out(Panic, Install(k, Faulted(GetOrCreate(k), messages)), maxMessages)
    ELSE Out(ErrNone, Install(k, AddMessagesLocked(GetOrCreate(k), messages)),
             maxMessages)

GetMessagesOut(k) ==
    IF k = "" THEN Ret(ErrInvalidChannel, << >>)
    ELSE IF k \notin DOMAIN channels THEN Ret(ErrCacheMiss, << >>)
    ELSE Ret(ErrNone, GetMessagesOf(channels[k]))

GetMessagesUnsafeOut(k) ==
    IF k = "" THEN Ret(ErrInvalidChannel, << >>)
    ELSE IF k \notin DOMAIN channels THEN Ret(ErrCacheMiss, << >>)
    ELSE Ret(ErrNone, GetMessagesUnsafeOf(channels[k]))

\* Variant of GetMessagesLimitOut: the directory is looked up before the
\* limit is checked.
GetMessagesLimitOut_MissFirst(k, limit) ==
    IF k = "" THEN Ret(ErrInvalidChannel, << >>)
    ELSE IF k \notin DOMAIN channels THEN Ret(ErrCacheMiss, << >>)
    ELSE IF limit <= 0 THEN Ret(ErrInvalidLimit, << >>)
    ELSE Ret(ErrNone, GetMessagesLimitOf(channels[k], limit))

GetMessagesLimitOut(k, limit) ==
    IF k = "" THEN Ret(ErrInvalidChannel, << >>)
    ELSE IF limit <= 0 THEN Ret(ErrInvalidLimit, << >>)
    ELSE IF k \notin DOMAIN channels THEN Ret(ErrCacheMiss, << >>)
    ELSE Ret(ErrNone, GetMessagesLimitOf(channels[k], limit))

\* Variant of ClearChannelOut: a channel that does not exist is reported.
ClearChannelOut_MissIsError(k) ==
    IF k = "" THEN Out(ErrInvalidChannel, channels, maxMessages)
    ELSE IF k \notin DOMAIN channels THEN Out(ErrCacheMiss, channels, maxMessages)
    ELSE Out(ErrNone, [channels EXCEPT ![k] = ClearChannelLocked(@)], maxMessages)

ClearChannelOut(k) ==
    IF k = "" THEN Out(ErrInvalidChannel, channels, maxMessages)
    ELSE IF k \notin DOMAIN channels THEN Out(ErrNone, channels, maxMessages)
    ELSE Out(ErrNone, [channels EXCEPT ![k] = ClearChannelLocked(@)], maxMessages)

\* SetMaxMessages, the loop over the channels of a directory.
SetMaxMessagesOn(chans, n) ==
    [k \in DOMAIN chans |-> SetMaxMessagesLocked(chans[k], n)]

\* Variant of SetMaxMessagesOut: the new capacity is stored before it is
\* checked.
SetMaxMessagesOut_StoreFirst(n) ==
    IF n <= 0 THEN Out(ErrInvalidLimit, channels, Int32(n))
    ELSE Out(ErrNone,
             [k \in DOMAIN channels |-> SetMaxMessagesLocked(channels[k], n)],
             Int32(n))

SetMaxMessagesOut(n) ==
    IF n <= 0 THEN Out(ErrInvalidLimit, channels, maxMessages)
    ELSE Out(ErrNone,
             [k \in DOMAIN channels |-> SetMaxMessagesLocked(channels[k], n)],
             Int32(n))

\* The runs explored under Spec: at most MaxCalls calls that change the
\* cache, then fetches. A fetch, like a call that returns an error, leaves
\* cache and history as they are, so every state of the cache that calls
\* made after it would reach is reached without it. A call refused for its
\* arguments is the last call of a run.
Fetches == {"GetMessages", "GetMessagesUnsafe", "GetMessagesLimit"}
MayChange == ncalls < MaxCalls /\ call.op \notin Fetches /\ ret.err = ErrNone
MayFetch == ret.err \notin {ErrInvalidChannel, ErrNilMessage, ErrInvalidLimit}

\* A call that changed the cache counts against MaxCalls.
Apply(out) ==
    /\ channels' = out.channels
    /\ maxMessages' = out.maxMessages
    /\ ret' = Ret(out.err, << >>)
    /\ ncalls' = IF <<out.channels, out.maxMessages>> = cache
                 THEN ncalls ELSE ncalls + 1
    /\ UNCHANGED conc

\* The history variables after an insert into channel k.
LogAfter(k, out, messages) ==
    IF out.err # ErrNone \/ ~(k \in DOMAIN out.channels)
    THEN UNCHANGED history
    ELSE /\ inserted' = [inserted EXCEPT ![k] = LogInsert(@, messages)]
         /\ evicted' = [evicted EXCEPT
                           ![k] = EvictedAfter(@, GetOrCreate(k), out.channels[k])]
         /\ dropped' = [dropped EXCEPT ![k] = @ \ IdsOf(Window(out.channels[k]))]
         /\ cleared' = [cleared EXCEPT ![k] = @ \ IdsOf(Window(out.channels[k]))]

AddMessage(k, message) ==
    LET out == AddMessageOut(k, message) IN
    /\ MayChange
    /\ call' = Call("AddMessage", k, message, 0)
    /\ Apply(out)
    /\ LogAfter(k, out, <<message>>)
    /\ oldCache' = IF Comparable /\ FreshBatch(k, <<message>>)
                   THEN OldAddMessage(oldCache, k, message) ELSE Unrelated

AddMessages(k, messages) ==
    LET out == AddMessagesOut(k, messages) IN
    /\ MayChange
    /\ call' = Call("AddMessages", k, Nil, Len(messages))
    /\ Apply(out)
    /\ LogAfter(k, out, messages)
    /\ oldCache' = IF Comparable /\ FreshBatch(k, messages)
                   THEN OldAddMessages(oldCache, k, messages) ELSE Unrelated

GetMessages(k) ==
    /\ MayFetch
    /\ call' = Call("GetMessages", k, Nil, 0)
    /\ ret' = GetMessagesOut(k)
    /\ UNCHANGED <<cache, ncalls, history, oldCache, conc>>

GetMessagesUnsafe(k) ==
    /\ MayFetch
    /\ call' = Call("GetMessagesUnsafe", k, Nil, 0)
    /\ ret' = GetMessagesUnsafeOut(k)
    /\ UNCHANGED <<cache, ncalls, history, oldCache, conc>>

GetMessagesLimit(k, limit) ==
    /\ MayFetch
    /\ call' = Call("GetMessagesLimit", k, Nil, limit)
    /\ ret' = GetMessagesLimitOut(k, limit)
    /\ UNCHANGED <<cache, ncalls, history, oldCache, conc>>

ClearChannel(k) ==
    /\ MayChange
    /\ call' = Call("ClearChannel", k, Nil, 0)
    /\ Apply(ClearChannelOut(k))
    /\ oldCache' = Unrelated
    /\ IF k \in DOMAIN channels
       THEN /\ inserted' = [inserted EXCEPT ![k] = Tainted]
            /\ evicted' = [evicted EXCEPT ![k] = {}]
            /\ dropped' = [dropped EXCEPT ![k] = {}]
            /\ cleared' = [cleared EXCEPT ![k] = @ \cup IdsOf(Window(channels[k]))]
       ELSE UNCHANGED history

SetMaxMessages(n) ==
    LET out == SetMaxMessagesOut(n) IN
    /\ MayChange
    /\ call' = Call("SetMaxMessages", "", Nil, n)
    /\ Apply(out)
    /\ oldCache' = IF Comparable /\ n > 0
                   THEN OldSetMaxMessages(oldCache, n) ELSE Unrelated
    /\ IF out.err = ErrNone
       THEN /\ inserted' = [k \in Keys |->
                               IF k \in DOMAIN channels THEN Tainted ELSE inserted[k]]
            /\ dropped' = [k \in Keys |->
                              IF k \in DOMAIN channels
                              THEN EvictedAfter(dropped[k], channels[k],
                                                out.channels[k])
                              ELSE dropped[k]]
            /\ UNCHANGED <<evicted, cleared>>
       ELSE UNCHANGED history

\* The slices given to AddMessages under Spec: up to MaxBatch records, each
\* record at most once (two records may still carry the same id).
Batches ==
    UNION {{s \in [1..n -> Messages] : \A i, j \in 1..n : i < j => s[i] # s[j]} :
              n \in 1..MaxBatch}

Next ==
    \/ \E k \in InsertKeys, m \in Messages : AddMessage(k, m)
    \/ \E k \in InsertKeys, ms \in Batches : AddMessages(k, ms)
    \/ \E k \in Keys : GetMessages(k)
    \/ \E k \in Keys : GetMessagesUnsafe(k)
    \/ \E k \in Keys, limit \in 1..(MaxCap + 1) : GetMessagesLimit(k, limit)
    \/ \E k \in Keys : ClearChannel(k)
    \/ \E n \in 1..MaxCap : SetMaxMessages(n)

Spec == Init /\ [][Next]_vars

\* SpecWrap: the calls of Spec on a cache built by NewMessageCache with any
\* positive argument hi * 2^32 + lo, also above the int32 range (hi > 0),
\* where the default capacity is the low word lo, which may be 0; next to
\* it an OldMessageCache built with the same argument and given the same
\* calls.
InitWrap ==
    /\ \E hi \in 0..MaxWrap, lo \in 0..MaxCap :
          /\ IsPositive(GoInt(hi, lo))
          /\ maxMessages = NewMessageCacheOf(GoInt(hi, lo))
          /\ call = Call("NewMessageCache", "", Nil, GoInt(hi, lo))
          /\ oldCache = NewOldMessageCache(GoInt(hi, lo))
    /\ channels = NoChannels
    /\ ret = Ret(ErrNone, << >>)
    /\ ncalls = 0
    /\ inserted = [k \in Keys |-> << >>]
    /\ evicted = [k \in Keys |-> {}]
    /\ dropped = [k \in Keys |-> {}]
    /\ cleared = [k \in Keys |-> {}]
    /\ threads = << >> /\ dir = << >> /\ heap = << >>
    /\ dirLock = << >> /\ chanLock = << >>
    /\ obs = << >>
    /\ globalCache = 0 /\ globalCacheOnce = 0 /\ instances = << >>
    /\ Cache = 0

SpecWrap == InitWrap /\ [][Next]_vars

\* Slices with nil elements, as in TestAddMessagesWithNilMessage: up to
\* MaxBatch elements, each nil or one of the test's two records, at least
\* one of them nil.
NilBatches ==
    UNION {{s \in [1..n -> {m \in Messages : m.Content = 0 /\ m.ID <= 2}
                               \cup {Nil}] :
               \E i \in 1..n : s[i] = Nil} : n \in 1..MaxBatch}

\* SpecArgs: every method with the arguments it accepts and with those it
\* refuses or has nothing to do for: an empty channel id, a nil record, an
\* empty slice, nil elements in a slice, a limit or a capacity that is not
\* positive. Slices have one record, or nil elements.
NextArgs ==
    \/ \E k \in InsertKeys \cup {""}, m \in Messages : AddMessage(k, m)
    \/ \E k \in AllKeys : AddMessage(k, Nil)
    \/ \E k \in InsertKeys \cup {""}, m \in Messages : AddMessages(k, <<m>>)
    \/ \E k \in InsertKeys, ms \in NilBatches : AddMessages(k, ms)
    \/ \E k \in AllKeys : AddMessages(k, << >>)
    \/ \E k \in AllKeys : GetMessages(k)
    \/ \E k \in AllKeys : GetMessagesUnsafe(k)
    \/ \E k \in AllKeys, limit \in (-1)..(MaxCap + 1) : GetMessagesLimit(k, limit)
    \/ \E k \in AllKeys : ClearChannel(k)
    \/ \E n \in (-1)..MaxCap : SetMaxMessages(n)

SpecArgs == Init /\ [][NextArgs]_vars

\* ------------------------------------------------------------- goroutines
\* SpecConc: NumThreads goroutines, each making one call on a shared cache.
\* A step is one lock operation, or the code run between taking a lock and
\* releasing it. Channel objects live in heap and are referred to by pointer.
Threads == 1..NumThreads

\* sync.RWMutex: the goroutine holding the write lock (0: none), the read
\* locks held per goroutine, and the goroutines blocked in Lock, which keep
\* new readers out.
FreeLock == [writer |-> 0, readers |-> [t \in Threads |-> 0], waiting |-> {}]

NoReaders(l) == \A t \in Threads : l.readers[t] = 0
CanRLock(l) == l.writer = 0 /\ l.waiting = {}
CanLock(l) == l.writer = 0 /\ NoReaders(l)
RLocked(l, t) == [l EXCEPT !.readers[t] = @ + 1]
RUnlocked(l, t) == [l EXCEPT !.readers[t] = @ - 1]
LockWanted(l, t) == [l EXCEPT !.waiting = @ \cup {t}]
Locked(l, t) == [l EXCEPT !.waiting = @ \ {t}, !.writer = t]
Unlocked(l) == [l EXCEPT !.writer = 0]

\* A reference to a slot array: the array of channel object obj, or, once
\* SetMaxMessages has given that channel a new array (obj = 0), the old
\* array, which nothing writes any more, with its slots val.
NoRef == [obj |-> 0, val |-> << >>]

\* A returned slice: the slots lo..hi-1 of an array.
NoResult == [arr |-> NoRef, lo |-> 0, hi |-> 0]

\* A goroutine: the method it runs (op), where it is in it (pc), the
\* arguments (key, msg, batch, n) and the local variables of the methods.
\* got is the content of the returned slice when the call returned; pre and
\* post are the channel's content when AddMessages took and released the
\* channel's lock.
Idle == [op |-> "none", pc |-> "idle", key |-> "", msg |-> Nil,
         cc |-> 0, exists |-> FALSE, err |-> ErrNone,
         batch |-> << >>, n |-> 0, i |-> 0, todo |-> {},
         head |-> 0, size |-> 0, maxMsgs |-> 0, messages |-> NoRef,
         result |-> NoResult, got |-> << >>, pre |-> << >>, post |-> << >>]

\* The records the goroutines insert: one per id.
ConcMessages == [ID : 1..NumIds, Content : {0}]

InitConc ==
    /\ \E n \in 1..MaxCap :
          /\ maxMessages = NewMessageCache(n)
          /\ call = Call("NewMessageCache", "", Nil, n)
    /\ channels = NoChannels
    /\ ret = Ret(ErrNone, << >>)
    /\ ncalls = 0
    /\ inserted = [k \in Keys |-> << >>]
    /\ evicted = [k \in Keys |-> {}]
    /\ dropped = [k \in Keys |-> {}]
    /\ cleared = [k \in Keys |-> {}]
    /\ oldCache = Unrelated
    /\ threads = [t \in Threads |-> Idle]
    /\ dir = << >>
    /\ heap = << >>
    /\ dirLock = FreeLock
    /\ chanLock = << >>
    /\ obs = [t \in Threads |-> [seen |-> {}, after |-> {}]]
    /\ globalCache = 0 /\ globalCacheOnce = 0 /\ instances = << >>
    /\ Cache = 0

\* What the goroutines of SpecConc and SpecRace leave alone.
sequential == <<channels, call, ret, ncalls, inserted, evicted, dropped, cleared,
                oldCache, global>>

\* The logical content of channel id k in directory d and heap h.
Content(d, h, k) == IF k \in DOMAIN d THEN Window(h[d[k]]) ELSE << >>

\* History: for a fetch, every content its channel has between the call and
\* the return; for every call, the fetches that had returned before it.
Observe ==
    obs' = [t \in Threads |->
        LET was == threads[t].pc
            th == threads'[t]
            now == Content(dir', heap', th.key)
        IN IF was = "idle" /\ th.pc # "idle"
           THEN [seen |-> IF th.op \in Fetches THEN {now} ELSE {},
                 after |-> {u \in Threads : threads[u].pc = "done"
                                            /\ threads[u].op \in Fetches}]
           ELSE IF was \notin {"idle", "done"} /\ th.op \in Fetches
           THEN [obs[t] EXCEPT !.seen = @ \cup {now}]
           ELSE obs[t]]

At(t, op, pc) == threads[t].op = op /\ threads[t].pc = pc
Goto(t, pc) == threads' = [threads EXCEPT ![t].pc = pc]

\* AddMessage, lines 64-70: the argument checks.
AM_Call(t, k, message) ==
    /\ threads[t].pc = "idle"
    /\ threads' = [threads EXCEPT ![t] =
          [Idle EXCEPT !.op = "AddMessage", !.key = k, !.msg = message,
                       !.pc = IF message = Nil \/ k = "" THEN "done" ELSE "RLock",
                       !.err = IF message = Nil THEN ErrNilMessage
                               ELSE IF k = "" THEN ErrInvalidChannel
                               ELSE ErrNone]]
    /\ UNCHANGED <<sequential, maxMessages, dir, heap, dirLock, chanLock>>
    /\ Observe

\* line 73: c.RLock()
AM_RLock(t) ==
    /\ At(t, "AddMessage", "RLock")
    /\ CanRLock(dirLock)
    /\ dirLock' = RLocked(dirLock, t)
    /\ Goto(t, "lookup")
    /\ UNCHANGED <<sequential, maxMessages, dir, heap, chanLock>>
    /\ Observe

\* lines 74-75: getOrCreateChannelCache under the read lock, c.RUnlock()
AM_Lookup(t) ==
    /\ At(t, "AddMessage", "lookup")
    /\ LET k == threads[t].key
           found == k \in DOMAIN dir
       IN threads' = [threads EXCEPT
                         ![t].exists = found,
                         ![t].cc = IF found THEN dir[k] ELSE 0,
                         ![t].pc = IF found THEN "chanLock" ELSE "Lock"]
    /\ dirLock' = RUnlocked(dirLock, t)
    /\ UNCHANGED <<sequential, maxMessages, dir, heap, chanLock>>
    /\ Observe

\* line 79: c.Lock() is called; the goroutine waits for the lock
AM_Lock(t) ==
    /\ At(t, "AddMessage", "Lock")
    /\ dirLock' = LockWanted(dirLock, t)
    /\ Goto(t, "locking")
    /\ UNCHANGED <<sequential, maxMessages, dir, heap, chanLock>>
    /\ Observe

\* line 79: c.Lock() returns
AM_Locked(t) ==
    /\ At(t, "AddMessage", "locking")
    /\ CanLock(dirLock)
    /\ dirLock' = Locked(dirLock, t)
    /\ Goto(t, "create")
    /\ UNCHANGED <<sequential, maxMessages, dir, heap, chanLock>>
    /\ Observe

\* Variant of AM_Create: the directory is not looked up again under the
\* write lock, a new channel is always installed.
AM_Create_NoRecheck(t) ==
    /\ At(t, "AddMessage", "create")
    /\ heap' = Append(heap, NewChannelCache(maxMessages))
    /\ chanLock' = Append(chanLock, FreeLock)
    /\ dir' = [x \in DOMAIN dir \cup {threads[t].key} |->
                  IF x = threads[t].key THEN Len(heap) + 1 ELSE dir[x]]
    /\ threads' = [threads EXCEPT ![t].cc = Len(heap) + 1, ![t].pc = "chanLock"]
    /\ dirLock' = Unlocked(dirLock)
    /\ UNCHANGED <<sequential, maxMessages>>
    /\ Observe

\* lines 80-91: second lookup under the write lock, creation of the channel
\* if it is still missing, c.Unlock()
AM_Create(t) ==
    /\ At(t, "AddMessage", "create")
    /\ LET k == threads[t].key IN
       IF k \in DOMAIN dir
       THEN /\ threads' = [threads EXCEPT ![t].cc = dir[k], ![t].pc = "chanLock"]
            /\ UNCHANGED <<dir, heap, chanLock>>
       ELSE /\ heap' = Append(heap, NewChannelCache(maxMessages))
            /\ chanLock' = Append(chanLock, FreeLock)
            /\ dir' = [x \in DOMAIN dir \cup {k} |->
                          IF x = k THEN Len(heap) + 1 ELSE dir[x]]
            /\ threads' = [threads EXCEPT ![t].cc = Len(heap) + 1,
                                          ![t].pc = "chanLock"]
    /\ dirLock' = Unlocked(dirLock)
    /\ UNCHANGED <<sequential, maxMessages>>
    /\ Observe

\* line 95: channelCache.Lock() is called
AM_ChanLock(t) ==
    /\ At(t, "AddMessage", "chanLock")
    /\ chanLock' = [chanLock EXCEPT ![threads[t].cc] = LockWanted(@, t)]
    /\ Goto(t, "chanLocking")
    /\ UNCHANGED <<sequential, maxMessages, dir, heap, dirLock>>
    /\ Observe

\* line 95: channelCache.Lock() returns
AM_ChanLocked(t) ==
    /\ At(t, "AddMessage", "chanLocking")
    /\ CanLock(chanLock[threads[t].cc])
    /\ chanLock' = [chanLock EXCEPT ![threads[t].cc] = Locked(@, t)]
    /\ Goto(t, "insert")
    /\ UNCHANGED <<sequential, maxMessages, dir, heap, dirLock>>
    /\ Observe

\* lines 96-120: the insert under the channel's lock, the deferred Unlock
AM_Insert(t) ==
    /\ At(t, "AddMessage", "insert")
    /\ heap' = [heap EXCEPT ![threads[t].cc] = AddMessageLocked(@, threads[t].msg)]
    /\ chanLock' = [chanLock EXCEPT ![threads[t].cc] = Unlocked(@)]
    /\ threads' = [threads EXCEPT ![t].pc = "done", ![t].err = ErrNone]
    /\ UNCHANGED <<sequential, maxMessages, dir, dirLock>>
    /\ Observe

NextConc ==
    \E t \in Threads :
        \/ \E k \in Keys, m \in ConcMessages : AM_Call(t, k, m)
        \/ AM_RLock(t)
        \/ AM_Lookup(t)
        \/ AM_Lock(t)
        \/ AM_Locked(t)
        \/ AM_Create(t)
        \/ AM_ChanLock(t)
        \/ AM_ChanLocked(t)
        \/ AM_Insert(t)

SpecConc == InitConc /\ [][NextConc]_vars

\* ---------------------------------------------- goroutines, all methods
\* SpecRace: NumThreads goroutines, each making one call of any method, on
\* a cache in which channel "a" may already hold records. The methods are
\* modelled as AddMessage is above; what a method reads or writes after it
\* has released the channel's lock is a step of its own.

\* The slots a reference points to, and the content of a returned slice.
Deref(ref) == IF ref.obj # 0 THEN heap[ref.obj].messages ELSE ref.val
ResultValue(r) == Slice(Deref(r.arr), r.lo, r.hi)

\* make([]*discordgo.Message, n), as the array behind a returned slice.
MakeResult(n) == [arr |-> [obj |-> 0, val |-> MakeSlots(n)], lo |-> 0, hi |-> n]

\* copy(result[at:], src[from:to])
CopyInto(r, at, src, from, to) ==
    [r EXCEPT !.arr.val = [j \in DOMAIN @ |->
        IF j >= at /\ j < at + (to - from) THEN src[from + (j - at)] ELSE @[j]]]

\* The first f records of the id sequence. The cache of SpecRace starts as
\* AddMessages("a", Prefix(f)) leaves a cache of capacity n; n and f go one
\* beyond MaxCap and NumIds so that a window of three slots that wraps and
\* a limit below its size are among the starting points.
Prefix(f) == [j \in 1..f |-> [ID |-> j, Content |-> 0]]

InitRace ==
    /\ \E n \in 1..(MaxCap + 1), f \in 0..(NumIds + 1) :
          /\ maxMessages = NewMessageCache(n)
          /\ call = Call("NewMessageCache", "", Nil, n)
          /\ IF f = 0
             THEN dir = << >> /\ heap = << >> /\ chanLock = << >>
             ELSE /\ dir = [k \in {"a"} |-> 1]
                  /\ heap = <<AddMessagesLocked(NewChannelCache(maxMessages),
                                                Prefix(f))>>
                  /\ chanLock = <<FreeLock>>
    /\ channels = NoChannels
    /\ ret = Ret(ErrNone, << >>)
    /\ ncalls = 0
    /\ inserted = [k \in Keys |-> << >>]
    /\ evicted = [k \in Keys |-> {}]
    /\ dropped = [k \in Keys |-> {}]
    /\ cleared = [k \in Keys |-> {}]
    /\ oldCache = Unrelated
    /\ threads = [t \in Threads |-> Idle]
    /\ dirLock = FreeLock
    /\ obs = [t \in Threads |-> [seen |-> {}, after |-> {}]]
    /\ globalCache = 0 /\ globalCacheOnce = 0 /\ instances = << >>
    /\ Cache = 0

\* Goroutine t goes on as th.
Step(t, th) == threads' = [threads EXCEPT ![t] = th]

\* The call returns err and the slice th.result.
Done(th, err) ==
    [th EXCEPT !.pc = "done", !.err = err, !.got = ResultValue(th.result)]

\* c.RLock()
DirRLock(t, pc, next) ==
    /\ threads[t].pc = pc
    /\ CanRLock(dirLock)
    /\ dirLock' = RLocked(dirLock, t)
    /\ Goto(t, next)
    /\ UNCHANGED <<sequential, maxMessages, dir, heap, chanLock>>
    /\ Observe

\* channelCache.RLock()
ChanRLock(t, pc, next) ==
    /\ threads[t].pc = pc
    /\ CanRLock(chanLock[threads[t].cc])
    /\ chanLock' = [chanLock EXCEPT ![threads[t].cc] = RLocked(@, t)]
    /\ Goto(t, next)
    /\ UNCHANGED <<sequential, maxMessages, dir, heap, dirLock>>
    /\ Observe

\* c.Lock() or channelCache.Lock() is called
WantDirLock(t, pc, next) ==
    /\ threads[t].pc = pc
    /\ dirLock' = LockWanted(dirLock, t)
    /\ Goto(t, next)
    /\ UNCHANGED <<sequential, maxMessages, dir, heap, chanLock>>
    /\ Observe

WantChanLock(t, pc, next) ==
    /\ threads[t].pc = pc
    /\ chanLock' = [chanLock EXCEPT ![threads[t].cc] = LockWanted(@, t)]
    /\ Goto(t, next)
    /\ UNCHANGED <<sequential, maxMessages, dir, heap, dirLock>>
    /\ Observe

\* c.Lock() or channelCache.Lock() returns
GetDirLock(t, pc, next) ==
    /\ threads[t].pc = pc
    /\ CanLock(dirLock)
    /\ dirLock' = Locked(dirLock, t)
    /\ Goto(t, next)
    /\ UNCHANGED <<sequential, maxMessages, dir, heap, chanLock>>
    /\ Observe

GetChanLock(t, pc, next) ==
    /\ threads[t].pc = pc
    /\ CanLock(chanLock[threads[t].cc])
    /\ chanLock' = [chanLock EXCEPT ![threads[t].cc] = Locked(@, t)]
    /\ Goto(t, next)
    /\ UNCHANGED <<sequential, maxMessages, dir, heap, dirLock>>
    /\ Observe

\* A step that writes no shared memory.
SameMemory == UNCHANGED <<sequential, maxMessages, dir, heap>>

\* GetMessages returns, to its caller or into GetMessagesUnsafe (line 288).
Return(th, err) ==
    IF th.op = "GetMessagesUnsafe"
    THEN [th EXCEPT !.pc = "U_RUnlock", !.err = err]
    ELSE Done(th, err)

\* c.channels[channelID] under the read lock, c.RUnlock()
DirLookup(t, pc, next, miss) ==
    /\ threads[t].pc = pc
    /\ LET th == threads[t] IN
       IF th.key \in DOMAIN dir
       THEN Step(t, [th EXCEPT !.exists = TRUE, !.cc = dir[th.key], !.pc = next])
       ELSE Step(t, miss)
    /\ dirLock' = RUnlocked(dirLock, t)
    /\ UNCHANGED <<sequential, maxMessages, dir, heap, chanLock>>
    /\ Observe

\* GetMessages, lines 197-200
G_Call(t, k) ==
    /\ threads[t].pc = "idle"
    /\ LET th == [Idle EXCEPT !.op = "GetMessages", !.key = k] IN
       Step(t, IF k = "" THEN Done(th, ErrInvalidChannel)
               ELSE [th EXCEPT !.pc = "G_RLock"])
    /\ UNCHANGED <<dirLock, chanLock>> /\ SameMemory
    /\ Observe

\* line 202
G_RLock(t) == DirRLock(t, "G_RLock", "G_lookup")

\* lines 203-208
G_Lookup(t) ==
    DirLookup(t, "G_lookup", "G_chanRLock", Return(threads[t], ErrCacheMiss))

\* line 217
G_ChanRLock(t) == ChanRLock(t, "G_chanRLock", "G_snapshot")

\* lines 219-232: head, size, maxMessages and the slice header of messages
\* are read under the channel's read lock, channelCache.RUnlock()
G_Snapshot(t) ==
    /\ threads[t].pc = "G_snapshot"
    /\ LET th == threads[t]
           ch == heap[th.cc]
       IN Step(t, IF ch.size = 0
                  THEN Return([th EXCEPT !.result = MakeResult(0)], ErrNone)
                  ELSE [th EXCEPT !.head = ch.head, !.size = ch.size,
                                  !.maxMsgs = ch.maxMessages,
                                  !.messages = [obj |-> th.cc, val |-> << >>],
                                  !.pc = "G_slice"])
    /\ chanLock' = [chanLock EXCEPT ![threads[t].cc] = RUnlocked(@, t)]
    /\ UNCHANGED dirLock /\ SameMemory
    /\ Observe

\* lines 237-247, no lock held: the slice messages[head:head+size] of the
\* channel's array is returned, or its tail is copied into a new array
G_Slice(t) ==
    /\ threads[t].pc = "G_slice"
    /\ LET th == threads[t] IN
       IF th.head + th.size <= th.maxMsgs
       THEN Step(t, Return([th EXCEPT !.result = [arr |-> th.messages,
                               lo |-> th.head, hi |-> th.head + th.size]],
                           ErrNone))
       ELSE Step(t, [th EXCEPT !.pc = "G_copy",
                        !.result = CopyInto(MakeResult(th.size), 0,
                                     Deref(th.messages), th.head, th.maxMsgs)])
    /\ UNCHANGED <<dirLock, chanLock>> /\ SameMemory
    /\ Observe

\* lines 249-253, no lock held: the head of the array is copied
G_Copy(t) ==
    /\ threads[t].pc = "G_copy"
    /\ LET th == threads[t]
           firstPartSize == th.maxMsgs - th.head
           secondPartSize == th.size - firstPartSize
       IN Step(t, Return([th EXCEPT !.result = CopyInto(@, firstPartSize,
                                     Deref(th.messages), 0, secondPartSize)],
                         ErrNone))
    /\ UNCHANGED <<dirLock, chanLock>> /\ SameMemory
    /\ Observe

\* GetMessagesUnsafe, lines 260-263
U_Call(t, k) ==
    /\ threads[t].pc = "idle"
    /\ LET th == [Idle EXCEPT !.op = "GetMessagesUnsafe", !.key = k] IN
       Step(t, IF k = "" THEN Done(th, ErrInvalidChannel)
               ELSE [th EXCEPT !.pc = "U_RLock"])
    /\ UNCHANGED <<dirLock, chanLock>> /\ SameMemory
    /\ Observe

\* line 265
U_RLock(t) == DirRLock(t, "U_RLock", "U_lookup")

\* lines 266-271
U_Lookup(t) ==
    DirLookup(t, "U_lookup", "U_chanRLock", Done(threads[t], ErrCacheMiss))

\* line 273
U_ChanRLock(t) == ChanRLock(t, "U_chanRLock", "U_body")

\* lines 274-288 under the channel's read lock: nil for an empty channel and
\* the whole array for a full one starting at slot 0, both with the deferred
\* RUnlock; otherwise GetMessages is called with the read lock held
U_Body(t) ==
    /\ threads[t].pc = "U_body"
    /\ LET th == threads[t]
           ch == heap[th.cc]
       IN IF ch.size = 0
          THEN /\ Step(t, Done(th, ErrNone))
               /\ chanLock' = [chanLock EXCEPT ![th.cc] = RUnlocked(@, t)]
          ELSE IF ch.head = 0 /\ ch.size = ch.maxMessages
          THEN /\ Step(t, Done([th EXCEPT !.result =
                                   [arr |-> [obj |-> th.cc, val |-> << >>],
                                    lo |-> 0, hi |-> ch.maxMessages]], ErrNone))
               /\ chanLock' = [chanLock EXCEPT ![th.cc] = RUnlocked(@, t)]
          ELSE /\ Step(t, [th EXCEPT !.pc = "G_RLock"])
               /\ UNCHANGED chanLock
    /\ UNCHANGED dirLock /\ SameMemory
    /\ Observe

\* line 288 then 274: GetMessages has returned, the deferred RUnlock
U_RUnlock(t) ==
    /\ threads[t].pc = "U_RUnlock"
    /\ Step(t, Done(threads[t], threads[t].err))
    /\ chanLock' = [chanLock EXCEPT ![threads[t].cc] = RUnlocked(@, t)]
    /\ UNCHANGED dirLock /\ SameMemory
    /\ Observe

\* GetMessagesLimit, lines 292-298
L_Call(t, k, limit) ==
    /\ threads[t].pc = "idle"
    /\ LET th == [Idle EXCEPT !.op = "GetMessagesLimit", !.key = k, !.n = limit] IN
       Step(t, IF k = "" THEN Done(th, ErrInvalidChannel)
               ELSE IF limit <= 0 THEN Done(th, ErrInvalidLimit)
               ELSE [th EXCEPT !.pc = "L_RLock"])
    /\ UNCHANGED <<dirLock, chanLock>> /\ SameMemory
    /\ Observe

\* line 300
L_RLock(t) == DirRLock(t, "L_RLock", "L_lookup")

\* lines 301-306
L_Lookup(t) ==
    DirLookup(t, "L_lookup", "L_chanRLock", Done(threads[t], ErrCacheMiss))

\* line 309
L_ChanRLock(t) == ChanRLock(t, "L_chanRLock", "L_snapshot")

\* lines 311-324
L_Snapshot(t) ==
    /\ threads[t].pc = "L_snapshot"
    /\ LET th == threads[t]
           ch == heap[th.cc]
       IN Step(t, IF ch.size = 0
                  THEN Done([th EXCEPT !.result = MakeResult(0)], ErrNone)
                  ELSE [th EXCEPT !.head = ch.head, !.size = ch.size,
                                  !.maxMsgs = ch.maxMessages,
                                  !.messages = [obj |-> th.cc, val |-> << >>],
                                  !.pc = "L_slice"])
    /\ chanLock' = [chanLock EXCEPT ![threads[t].cc] = RUnlocked(@, t)]
    /\ UNCHANGED dirLock /\ SameMemory
    /\ Observe

\* lines 326-366, no lock held: GetMessages is called when the whole content
\* is asked for; otherwise a slice of the channel's array is returned, or
\* the records are copied into a new array
L_Slice(t) ==
    /\ threads[t].pc = "L_slice"
    /\ LET th == threads[t]
           limit == Min(th.n, th.size)
           startIdx == (th.head + th.size - limit) % th.maxMsgs
           src == Deref(th.messages)
       IN IF limit = th.size
          THEN Step(t, [th EXCEPT !.pc = "G_RLock"])
          ELSE IF startIdx + limit <= th.maxMsgs
          THEN Step(t, Done([th EXCEPT !.result = [arr |-> th.messages,
                                lo |-> startIdx, hi |-> startIdx + limit]],
                            ErrNone))
          ELSE IF startIdx > th.head
          THEN Step(t, [th EXCEPT !.pc = "L_copy", !.i = startIdx,
                           !.result = CopyInto(MakeResult(limit), 0, src,
                                               startIdx, th.maxMsgs)])
          ELSE Step(t, Done([th EXCEPT !.result.arr.val =
                                [j \in 0..(limit - 1) |->
                                    src[(startIdx + j) % th.maxMsgs]],
                                !.result.hi = limit], ErrNone))
    /\ UNCHANGED <<dirLock, chanLock>> /\ SameMemory
    /\ Observe

\* lines 357-358, no lock held: the head of the array is copied
L_Copy(t) ==
    /\ threads[t].pc = "L_copy"
    /\ LET th == threads[t]
           limit == Min(th.n, th.size)
           firstPartSize == th.maxMsgs - th.i
           secondPartSize == limit - firstPartSize
       IN Step(t, Done([th EXCEPT !.result = CopyInto(@, firstPartSize,
                                   Deref(th.messages), 0, secondPartSize)],
                       ErrNone))
    /\ UNCHANGED <<dirLock, chanLock>> /\ SameMemory
    /\ Observe

\* ClearChannel, lines 370-373
X_Call(t, k) ==
    /\ threads[t].pc = "idle"
    /\ LET th == [Idle EXCEPT !.op = "ClearChannel", !.key = k] IN
       Step(t, IF k = "" THEN Done(th, ErrInvalidChannel)
               ELSE [th EXCEPT !.pc = "X_RLock"])
    /\ UNCHANGED <<dirLock, chanLock>> /\ SameMemory
    /\ Observe

\* line 375
X_RLock(t) == DirRLock(t, "X_RLock", "X_lookup")

\* lines 376-381
X_Lookup(t) ==
    DirLookup(t, "X_lookup", "X_chanLock", Done(threads[t], ErrNone))

\* line 384
X_ChanLock(t) == WantChanLock(t, "X_chanLock", "X_chanLocking")
X_ChanLocked(t) == GetChanLock(t, "X_chanLocking", "X_clear")

\* Variant of X_Clear: every channel of the directory is reset.
X_Clear_All(t) ==
    /\ threads[t].pc = "X_clear"
    /\ heap' = [o \in DOMAIN heap |-> ClearChannelLocked(heap[o])]
    /\ chanLock' = [chanLock EXCEPT ![threads[t].cc] = Unlocked(@)]
    /\ Step(t, Done(threads[t], ErrNone))
    /\ UNCHANGED <<sequential, maxMessages, dir, dirLock>>
    /\ Observe

\* lines 385-394: head, size and messageIDs are reset, the deferred Unlock
X_Clear(t) ==
    /\ threads[t].pc = "X_clear"
    /\ heap' = [heap EXCEPT ![threads[t].cc] = ClearChannelLocked(@)]
    /\ chanLock' = [chanLock EXCEPT ![threads[t].cc] = Unlocked(@)]
    /\ Step(t, Done(threads[t], ErrNone))
    /\ UNCHANGED <<sequential, maxMessages, dir, dirLock>>
    /\ Observe

\* AddMessages, lines 124-130
B_Call(t, k, messages) ==
    /\ threads[t].pc = "idle"
    /\ LET th == [Idle EXCEPT !.op = "AddMessages", !.key = k,
                              !.batch = messages, !.i = 1] IN
       Step(t, IF k = "" THEN Done(th, ErrInvalidChannel)
               ELSE IF Len(messages) = 0 THEN Done(th, ErrNone)
               ELSE [th EXCEPT !.pc = "B_RLock"])
    /\ UNCHANGED <<dirLock, chanLock>> /\ SameMemory
    /\ Observe

\* line 133
B_RLock(t) == DirRLock(t, "B_RLock", "B_lookup")

\* lines 134-135
B_Lookup(t) ==
    DirLookup(t, "B_lookup", "B_chanLock", [threads[t] EXCEPT !.pc = "B_Lock"])

\* line 139
B_Lock(t) == WantDirLock(t, "B_Lock", "B_locking")
B_Locked(t) == GetDirLock(t, "B_locking", "B_create")

\* Variant of B_Create: the directory is not looked up again under the
\* write lock, a new channel is always installed.
B_Create_NoRecheck(t) ==
    /\ threads[t].pc = "B_create"
    /\ heap' = Append(heap, NewChannelCache(maxMessages))
    /\ chanLock' = Append(chanLock, FreeLock)
    /\ dir' = [x \in DOMAIN dir \cup {threads[t].key} |->
                  IF x = threads[t].key THEN Len(heap) + 1 ELSE dir[x]]
    /\ threads' = [threads EXCEPT ![t].cc = Len(heap) + 1,
                                  ![t].pc = "B_chanLock"]
    /\ dirLock' = Unlocked(dirLock)
    /\ UNCHANGED <<sequential, maxMessages>>
    /\ Observe

\* lines 140-151: second lookup under the write lock, creation of the
\* channel if it is still missing, c.Unlock()
B_Create(t) ==
    /\ threads[t].pc = "B_create"
    /\ LET k == threads[t].key IN
       IF k \in DOMAIN dir
       THEN /\ threads' = [threads EXCEPT ![t].cc = dir[k], ![t].pc = "B_chanLock"]
            /\ UNCHANGED <<dir, heap, chanLock>>
       ELSE /\ heap' = Append(heap, NewChannelCache(maxMessages))
            /\ chanLock' = Append(chanLock, FreeLock)
            /\ dir' = [x \in DOMAIN dir \cup {k} |->
                          IF x = k THEN Len(heap) + 1 ELSE dir[x]]
            /\ threads' = [threads EXCEPT ![t].cc = Len(heap) + 1,
                                          ![t].pc = "B_chanLock"]
    /\ dirLock' = Unlocked(dirLock)
    /\ UNCHANGED <<sequential, maxMessages>>
    /\ Observe

\* line 155
B_ChanLock(t) == WantChanLock(t, "B_chanLock", "B_chanLocking")

B_ChanLocked(t) ==
    /\ threads[t].pc = "B_chanLocking"
    /\ CanLock(chanLock[threads[t].cc])
    /\ chanLock' = [chanLock EXCEPT ![threads[t].cc] = Locked(@, t)]
    /\ Step(t, [threads[t] EXCEPT !.pc = "B_item",
                                  !.pre = Window(heap[threads[t].cc])])
    /\ UNCHANGED <<sequential, maxMessages, dir, heap, dirLock>>
    /\ Observe

\* lines 160-192: one turn of the loop over the batch; after the last one
\* the deferred Unlock
B_Item(t) ==
    /\ threads[t].pc = "B_item"
    /\ LET th == threads[t]
           ch == AddMessagesItem(heap[th.cc], th.batch[th.i])
       IN /\ heap' = [heap EXCEPT ![th.cc] = ch]
          /\ IF th.i < Len(th.batch)
             THEN /\ Step(t, [th EXCEPT !.i = th.i + 1])
                  /\ UNCHANGED chanLock
             ELSE /\ Step(t, [Done(th, ErrNone) EXCEPT !.post = Window(ch)])
                  /\ chanLock' = [chanLock EXCEPT ![th.cc] = Unlocked(@)]
    /\ UNCHANGED <<sequential, maxMessages, dir, dirLock>>
    /\ Observe

\* SetMaxMessages, lines 398-404: the argument check and the atomic store
S_Call(t, n) ==
    /\ threads[t].pc = "idle"
    /\ LET th == [Idle EXCEPT !.op = "SetMaxMessages", !.n = n] IN
       IF n <= 0
       THEN Step(t, Done(th, ErrInvalidLimit)) /\ UNCHANGED maxMessages
       ELSE Step(t, [th EXCEPT !.pc = "S_Lock"]) /\ maxMessages' = Int32(n)
    /\ UNCHANGED <<sequential, dir, heap, dirLock, chanLock>>
    /\ Observe

\* line 407
S_Lock(t) == WantDirLock(t, "S_Lock", "S_locking")

\* lines 407-411: c.Lock() returns, the loop over c.channels begins
S_Locked(t) ==
    /\ threads[t].pc = "S_locking"
    /\ CanLock(dirLock)
    /\ dirLock' = Locked(dirLock, t)
    /\ Step(t, [threads[t] EXCEPT !.pc = "S_range",
                                  !.todo = {dir[k] : k \in DOMAIN dir}])
    /\ UNCHANGED <<sequential, maxMessages, dir, heap, chanLock>>
    /\ Observe

\* lines 411-412, with the directory's write lock held: the next channel,
\* in any order, and channelCache.Lock() is called
S_ChanLock(t) ==
    /\ threads[t].pc = "S_range"
    /\ \E o \in threads[t].todo :
          /\ Step(t, [threads[t] EXCEPT !.cc = o, !.todo = @ \ {o},
                                        !.pc = "S_chanLocking"])
          /\ chanLock' = [chanLock EXCEPT ![o] = LockWanted(@, t)]
    /\ UNCHANGED <<sequential, maxMessages, dir, heap, dirLock>>
    /\ Observe

S_ChanLocked(t) == GetChanLock(t, "S_chanLocking", "S_resize")

\* The references to the array of channel object o, once the channel has
\* been given a new array: they keep pointing to the old one.
Detached(ref, o, old) ==
    IF ref.obj = o THEN [obj |-> 0, val |-> old] ELSE ref

\* lines 414-467: the channel gets a new array holding its most recent
\* records, channelCache.Unlock()
S_Resize(t) ==
    /\ threads[t].pc = "S_resize"
    /\ LET o == threads[t].cc
           old == heap[o].messages
       IN /\ heap' = [heap EXCEPT ![o] = SetMaxMessagesLocked(@, threads[t].n)]
          /\ chanLock' = [chanLock EXCEPT ![o] = Unlocked(@)]
          /\ threads' = [u \in Threads |->
                [threads[u] EXCEPT
                    !.messages = Detached(@, o, old),
                    !.result.arr = Detached(@, o, old),
                    !.pc = IF u = t THEN "S_range" ELSE @]]
    /\ UNCHANGED <<sequential, maxMessages, dir, dirLock>>
    /\ Observe

\* lines 408, 470: the loop is over, the deferred c.Unlock()
S_Unlock(t) ==
    /\ threads[t].pc = "S_range"
    /\ threads[t].todo = {}
    /\ dirLock' = Unlocked(dirLock)
    /\ Step(t, Done(threads[t], ErrNone))
    /\ UNCHANGED <<sequential, maxMessages, dir, heap, chanLock>>
    /\ Observe

\* The batches the goroutines insert: distinct records.
ConcBatches ==
    UNION {{s \in [1..n -> ConcMessages] :
               \A i, j \in 1..n : i < j => s[i] # s[j]} : n \in 1..MaxBatch}

NextRace ==
    \E t \in Threads :
        \/ \E k \in Keys, m \in ConcMessages : AM_Call(t, k, m)
        \/ AM_RLock(t) \/ AM_Lookup(t) \/ AM_Lock(t) \/ AM_Locked(t)
        \/ AM_Create(t) \/ AM_ChanLock(t) \/ AM_ChanLocked(t) \/ AM_Insert(t)
        \/ \E k \in Keys, ms \in ConcBatches : B_Call(t, k, ms)
        \/ B_RLock(t) \/ B_Lookup(t) \/ B_Lock(t) \/ B_Locked(t)
        \/ B_Create(t) \/ B_ChanLock(t) \/ B_ChanLocked(t) \/ B_Item(t)
        \/ \E k \in Keys : G_Call(t, k)
        \/ G_RLock(t) \/ G_Lookup(t) \/ G_ChanRLock(t) \/ G_Snapshot(t)
        \/ G_Slice(t) \/ G_Copy(t)
        \/ \E k \in Keys : U_Call(t, k)
        \/ U_RLock(t) \/ U_Lookup(t) \/ U_ChanRLock(t) \/ U_Body(t)
        \/ U_RUnlock(t)
        \/ \E k \in Keys, limit \in 1..MaxCap : L_Call(t, k, limit)
        \/ L_RLock(t) \/ L_Lookup(t) \/ L_ChanRLock(t) \/ L_Snapshot(t)
        \/ L_Slice(t) \/ L_Copy(t)
        \/ \E k \in Keys : X_Call(t, k)
        \/ X_RLock(t) \/ X_Lookup(t) \/ X_ChanLock(t) \/ X_ChanLocked(t)
        \/ X_Clear(t)
        \/ \E n \in 1..MaxCap : S_Call(t, n)
        \/ S_Lock(t) \/ S_Locked(t) \/ S_ChanLock(t) \/ S_ChanLocked(t)
        \/ S_Resize(t) \/ S_Unlock(t)

SpecRace == InitRace /\ [][NextRace]_vars

\* ------------------------------------------------------- GetGlobalCache
\* SpecGlobal: NumThreads goroutines call GetGlobalCache, insert a record
\* through the pointer they got and fetch through it. globalCacheOnce is a
\* sync.Once: a done flag and a mutex (m: the goroutine holding it, 0 for
\* none). The calls made through the pointer are single steps here.

\* A MessageCache object as NewMessageCache builds it.
NewInstance(n) == [channels |-> NoChannels, maxMessages |-> NewMessageCache(n)]

\* AddMessage and GetMessages called on MessageCache object c.
AddMessageTo(c, k, message) ==
    IF message = Nil \/ k = "" THEN c
    ELSE LET ch == IF k \in DOMAIN c.channels THEN c.channels[k]
                   ELSE NewChannelCache(c.maxMessages)
         IN [c EXCEPT !.channels = [x \in DOMAIN @ \cup {k} |->
                IF x = k THEN AddMessageLocked(ch, message) ELSE @[x]]]

GetMessagesIn(c, k) ==
    IF k \in DOMAIN c.channels THEN GetMessagesOf(c.channels[k]) ELSE << >>

\* A goroutine: where it is, the pointer it builds (new) and the one it got
\* back (cache), whether it went through Once.doSlow, the record it inserts,
\* what its fetch returned and which goroutines had inserted by then.
GlobalIdle == [pc |-> "idle", new |-> 0, cache |-> 0, slow |-> FALSE,
               msg |-> Nil, got |-> << >>, after |-> {}, via |-> "GetGlobalCache"]

InitGlobal ==
    /\ maxMessages = 0
    /\ call = Call("GetGlobalCache", "", Nil, 0)
    /\ channels = NoChannels
    /\ ret = Ret(ErrNone, << >>)
    /\ ncalls = 0
    /\ inserted = [k \in Keys |-> << >>]
    /\ evicted = [k \in Keys |-> {}]
    /\ dropped = [k \in Keys |-> {}]
    /\ cleared = [k \in Keys |-> {}]
    /\ oldCache = Unrelated
    /\ threads = [t \in Threads |-> GlobalIdle]
    /\ dir = << >> /\ heap = << >>
    /\ dirLock = << >> /\ chanLock = << >>
    /\ obs = << >>
    /\ globalCache = 0
    /\ globalCacheOnce = [done |-> FALSE, m |-> 0]
    /\ instances = << >>
    /\ Cache = 0

\* What the goroutines of SpecGlobal leave alone.
rest == <<channels, maxMessages, call, ret, ncalls, inserted, evicted, dropped,
          cleared, oldCache, dir, heap, dirLock, chanLock, obs, Cache>>

\* line 481: GetGlobalCache is called
GG_Call(t) ==
    /\ threads[t].pc = "idle"
    /\ Goto(t, "Do")
    /\ UNCHANGED <<rest, global>>

\* line 482, Once.Do: the done flag is read without the mutex
GG_Do(t) ==
    /\ threads[t].pc = "Do"
    /\ Goto(t, IF globalCacheOnce.done THEN "return" ELSE "doSlow")
    /\ UNCHANGED <<rest, global>>

\* line 482, Once.doSlow: the mutex is taken
GG_DoSlow(t) ==
    /\ threads[t].pc = "doSlow"
    /\ globalCacheOnce.m = 0
    /\ globalCacheOnce' = [globalCacheOnce EXCEPT !.m = t]
    /\ Step(t, [threads[t] EXCEPT !.pc = "check", !.slow = TRUE])
    /\ UNCHANGED <<rest, globalCache, instances>>

\* Variant of GG_Check: the done flag is not read again under the mutex.
GG_Check_NoRecheck(t) ==
    /\ threads[t].pc = "check"
    /\ Goto(t, "new")
    /\ UNCHANGED <<rest, global>>

\* line 482, Once.doSlow: the done flag is read again under the mutex; if
\* it is set the mutex is released
GG_Check(t) ==
    /\ threads[t].pc = "check"
    /\ IF globalCacheOnce.done
       THEN /\ globalCacheOnce' = [globalCacheOnce EXCEPT !.m = 0]
            /\ Goto(t, "return")
       ELSE /\ Goto(t, "new")
            /\ UNCHANGED globalCacheOnce
    /\ UNCHANGED <<rest, globalCache, instances>>

\* line 483, lines 40-48: NewMessageCache(100) builds the object
GG_New(t) ==
    /\ threads[t].pc = "new"
    /\ instances' = Append(instances, NewInstance(100))
    /\ Step(t, [threads[t] EXCEPT !.pc = "assign", !.new = Len(instances) + 1])
    /\ UNCHANGED <<rest, globalCache, globalCacheOnce>>

\* line 483: globalCache = ...
GG_Assign(t) ==
    /\ threads[t].pc = "assign"
    /\ globalCache' = threads[t].new
    /\ Goto(t, "set")
    /\ UNCHANGED <<rest, globalCacheOnce, instances>>

\* line 484, Once.doSlow: the done flag is set, the mutex is released
GG_Set(t) ==
    /\ threads[t].pc = "set"
    /\ globalCacheOnce' = [done |-> TRUE, m |-> 0]
    /\ Goto(t, "return")
    /\ UNCHANGED <<rest, globalCache, instances>>

\* line 485: return globalCache
GG_Return(t) ==
    /\ threads[t].pc = "return"
    /\ Step(t, [threads[t] EXCEPT !.pc = "got", !.cache = globalCache])
    /\ UNCHANGED <<rest, global>>

\* message_cache_test.go line 326: AddMessage through the pointer
GG_AddMessage(t, message) ==
    /\ threads[t].pc = "got"
    /\ instances' = [instances EXCEPT ![threads[t].cache] =
                        AddMessageTo(@, "a", message)]
    /\ Step(t, [threads[t] EXCEPT !.pc = "added", !.msg = message])
    /\ UNCHANGED <<rest, globalCache, globalCacheOnce>>

\* message_cache_test.go line 338: GetMessages through the pointer
GG_GetMessages(t) ==
    /\ threads[t].pc = "added"
    /\ Step(t, [threads[t] EXCEPT
                   !.pc = "done",
                   !.got = GetMessagesIn(instances[threads[t].cache], "a"),
                   !.after = {u \in Threads : threads[u].pc \in {"added", "done"}}])
    /\ UNCHANGED <<rest, global>>

NextGlobal ==
    \E t \in Threads :
        \/ GG_Call(t)
        \/ GG_Do(t)
        \/ GG_DoSlow(t)
        \/ GG_Check(t)
        \/ GG_New(t)
        \/ GG_Assign(t)
        \/ GG_Set(t)
        \/ GG_Return(t)
        \/ \E m \in ConcMessages : GG_AddMessage(t, m)
        \/ GG_GetMessages(t)

SpecGlobal == InitGlobal /\ [][NextGlobal]_vars

\* ------------------------------------------------------ depreciated.go
\* SpecCompat: the package with depreciated.go. Its init function runs
\* before any goroutine of the program exists, so it is one step; after it
\* the goroutines take the pointer from GetGlobalCache or from the variable
\* Cache, insert a record through it and fetch through it.
InitCompat ==
    /\ maxMessages = 0
    /\ call = Call("init", "", Nil, 0)
    /\ channels = NoChannels
    /\ ret = Ret(ErrNone, << >>)
    /\ ncalls = 0
    /\ inserted = [k \in Keys |-> << >>]
    /\ evicted = [k \in Keys |-> {}]
    /\ dropped = [k \in Keys |-> {}]
    /\ cleared = [k \in Keys |-> {}]
    /\ oldCache = Unrelated
    /\ threads = [t \in Threads |-> [GlobalIdle EXCEPT !.pc = "unstarted"]]
    /\ dir = << >> /\ heap = << >>
    /\ dirLock = << >> /\ chanLock = << >>
    /\ obs = << >>
    /\ globalCache = 0
    /\ globalCacheOnce = [done |-> FALSE, m |-> 0]
    /\ instances = << >>
    /\ Cache = 0

\* Variant of PackageInit: Cache gets a MessageCache of its own.
PackageInit_OwnCache ==
    /\ Cache = 0 /\ ~globalCacheOnce.done
    /\ instances' = instances \o <<NewInstance(100), NewInstance(100)>>
    /\ globalCache' = Len(instances) + 1
    /\ globalCacheOnce' = [done |-> TRUE, m |-> 0]
    /\ Cache' = Len(instances) + 2
    /\ threads' = [t \in Threads |-> GlobalIdle]
    /\ UNCHANGED <<channels, maxMessages, call, ret, ncalls, inserted, evicted,
                   dropped, cleared, oldCache, dir, heap, dirLock, chanLock, obs>>

\* depreciated.go lines 49-52: Cache = GetGlobalCache(), the first call of
\* GetGlobalCache (message_cache.go lines 481-485): the cache is built,
\* globalCache is set, the Once is done, and the pointer returned is stored
\* in Cache. The goroutines of the program start afterwards.
PackageInit ==
    /\ Cache = 0 /\ ~globalCacheOnce.done
    /\ instances' = Append(instances, NewInstance(100))
    /\ globalCache' = Len(instances) + 1
    /\ globalCacheOnce' = [done |-> TRUE, m |-> 0]
    /\ Cache' = globalCache'
    /\ threads' = [t \in Threads |-> GlobalIdle]
    /\ UNCHANGED <<channels, maxMessages, call, ret, ncalls, inserted, evicted,
                   dropped, cleared, oldCache, dir, heap, dirLock, chanLock, obs>>

\* examples/import/subpkg/subpkg.go line 12: the variable Cache is read
CacheLoad(t) ==
    /\ threads[t].pc = "idle"
    /\ Step(t, [threads[t] EXCEPT !.pc = "got", !.cache = Cache, !.via = "Cache"])
    /\ UNCHANGED <<rest, global>>

NextCompat ==
    \/ PackageInit
    \/ \E t \in Threads :
        \/ GG_Call(t)
        \/ GG_Do(t)
        \/ GG_Return(t)
        \/ CacheLoad(t)
        \/ \E m \in ConcMessages : GG_AddMessage(t, m)
        \/ GG_GetMessages(t)

SpecCompat == InitCompat /\ [][NextCompat]_vars

\* ================================================================= claims
LastN(seq, n) == SubSeq(seq, Len(seq) - n + 1, Len(seq))
Exists(k) == k \in DOMAIN channels
Recorded(k) == Exists(k) /\ inserted[k] # Tainted
ReturnedBy(op, k) == call.op = op /\ call.key = k /\ ret.err = ErrNone

\* C1: after N > C inserts of records with pairwise distinct ids into a
\* channel of capacity C (by AddMessage, AddMessages or both), GetMessages
\* returns exactly the last C inserted records, oldest first, also when the
\* window wraps past the end of the slot array.
C1_LastCapacityRecords ==
    \A k \in Keys :
        (Recorded(k) /\ Len(inserted[k]) > channels[k].maxMessages) =>
            /\ GetMessagesOf(channels[k]) =
                   LastN(inserted[k], channels[k].maxMessages)
            /\ ReturnedBy("GetMessages", k) =>
                   ret.msgs = LastN(inserted[k], channels[k].maxMessages)

C1_Witness ==
    \E k \in Keys :
        /\ Recorded(k) /\ Len(inserted[k]) > channels[k].maxMessages
        /\ channels[k].maxMessages > 1 /\ channels[k].head # 0
        /\ ReturnedBy("GetMessages", k)
        /\ ret.msgs = LastN(inserted[k], channels[k].maxMessages)

\* C2: on a channel that did not exist before, after N <= C inserts of
\* records with distinct ids GetMessages returns exactly those N records in
\* insertion order.
C2_AllRecordsInOrder ==
    \A k \in Keys :
        (Recorded(k) /\ Len(inserted[k]) <= channels[k].maxMessages) =>
            /\ GetMessagesOf(channels[k]) = inserted[k]
            /\ ReturnedBy("GetMessages", k) => ret.msgs = inserted[k]

C2_Witness ==
    \E k \in Keys :
        /\ Recorded(k) /\ Len(inserted[k]) = 2
        /\ channels[k].maxMessages = 2
        /\ ReturnedBy("GetMessages", k) /\ ret.msgs = inserted[k]

\* C3: inserting, by AddMessage or AddMessages, records whose ids are all in
\* the channel's logical window returns success and leaves the channel as it
\* was: same size, head, capacity and GetMessages sequence.
SameChannel(k, out) ==
    /\ out.err = ErrNone
    /\ out.channels[k].size = channels[k].size
    /\ out.channels[k].head = channels[k].head
    /\ out.channels[k].maxMessages = channels[k].maxMessages
    /\ GetMessagesOf(out.channels[k]) = GetMessagesOf(channels[k])

C3_DuplicateIsNoOp ==
    \A k \in DOMAIN channels :
        LET present == IdsOf(Window(channels[k])) IN
        /\ \A m \in Messages :
              m.ID \in present => SameChannel(k, AddMessageOut(k, m))
        /\ \A ms \in Batches :
              IdsOf(ms) \subseteq present => SameChannel(k, AddMessagesOut(k, ms))

\* The last call passed a record that is not stored although a record with
\* its id is in the window: the record was refused as a duplicate.
C3_Witness ==
    \E k \in Keys :
        /\ Exists(k) /\ ReturnedBy("AddMessage", k)
        /\ call.msg.ID \in IdsOf(Window(channels[k]))
        /\ \A i \in 1..channels[k].size : Window(channels[k])[i] # call.msg

\* C4: in every reachable state the duplicate-tracking set of a channel is
\* exactly the set of ids of the records in its logical window.
C4_IdsEqualWindow ==
    \A k \in DOMAIN channels :
        channels[k].messageIDs = IdsOf(Window(channels[k]))

\* C5: an id evicted by an insert into a full buffer is released: a later
\* AddMessage or AddMessages of a record with that id stores it as the
\* newest entry, the last element GetMessages returns.
StoredNewest(k, m, out) ==
    LET got == GetMessagesOf(out.channels[k]) IN
    out.err = ErrNone /\ Len(got) > 0 /\ got[Len(got)] = m

C5_EvictedIdReinsertable ==
    \A k \in DOMAIN channels :
        \A m \in Messages :
            m.ID \in evicted[k] =>
                /\ StoredNewest(k, m, AddMessageOut(k, m))
                /\ StoredNewest(k, m, AddMessagesOut(k, <<m>>))

C7_ResizeKeepsMostRecent ==
    \A n \in 1..(MaxCap + 1) :
        LET out == SetMaxMessagesOut(n) IN
        /\ out.err = ErrNone
        /\ DOMAIN out.channels = DOMAIN channels
        /\ \A k \in DOMAIN channels :
              LET W == Window(channels[k])
                  S == channels[k].size
                  after == out.channels[k]
              IN /\ after.maxMessages = n
                 /\ after.head = 0
                 /\ Window(after) = IF n >= channels[k].maxMessages THEN W
                                    ELSE LastN(W, Min(S, n))
                 /\ GetMessagesOf(after) = Window(after)

\* A shrinking SetMaxMessages has just cut records off a channel and kept
\* as many as the new capacity allows.
C7_Witness ==
    \E k \in DOMAIN channels :
        /\ call.op = "SetMaxMessages" /\ ret.err = ErrNone
        /\ dropped[k] # {}
        /\ channels[k].size = call.n /\ channels[k].maxMessages = call.n

\* C8: ClearChannel on an existing channel keeps it in the directory with
\* its capacity and an empty window: GetMessages then returns an empty
\* sequence without error, and a following insert of any record, also one
\* whose id was resident before the clear, succeeds and is stored.
C8_ClearEmptiesAndReopens ==
    \A k \in DOMAIN channels :
        LET out == ClearChannelOut(k)
            after == out.channels[k]
        IN /\ out.err = ErrNone
           /\ DOMAIN out.channels = DOMAIN channels
           /\ after.maxMessages = channels[k].maxMessages
           /\ after.size = 0
           /\ GetMessagesOf(after) = << >>
           /\ \A m \in Messages :
                 /\ GetMessagesOf(AddMessageLocked(after, m)) = <<m>>
                 /\ GetMessagesOf(AddMessagesLocked(after, <<m>>)) = <<m>>

\* ClearChannel has just emptied a channel that held records (they are
\* still in the slot array).
C8_Witness ==
    \E k \in DOMAIN channels :
        /\ ReturnedBy("ClearChannel", k)
        /\ channels[k].size = 0
        /\ channels[k].messages[0] # Nil

\* C9: on a channel id no insert has created, GetMessages, GetMessagesUnsafe
\* and GetMessagesLimit (limit > 0) return ErrCacheMiss and ClearChannel
\* returns success; none of them creates the channel or changes the cache.
C9_MissChangesNothing ==
    \A k \in Keys \ DOMAIN channels :
        /\ GetMessagesOut(k) = Ret(ErrCacheMiss, << >>)
        /\ GetMessagesUnsafeOut(k) = Ret(ErrCacheMiss, << >>)
        /\ \A L \in 1..(MaxCap + 1) :
              GetMessagesLimitOut(k, L) = Ret(ErrCacheMiss, << >>)
        /\ ClearChannelOut(k) = Out(ErrNone, channels, maxMessages)
        /\ (call.key = k /\ call.op \in {"GetMessages", "GetMessagesUnsafe",
                                         "GetMessagesLimit"}) =>
               ret = Ret(ErrCacheMiss, << >>)
        /\ (call.key = k /\ call.op = "ClearChannel") => ret = Ret(ErrNone, << >>)

C9_Witness ==
    /\ call.op \in {"ClearChannel", "GetMessagesLimit"}
    /\ call.key \in Keys /\ ~Exists(call.key)
    /\ DOMAIN channels # {}
    /\ ret.err = IF call.op = "ClearChannel" THEN ErrNone ELSE ErrCacheMiss

\* All goroutines have returned from AddMessage calls on channel id k with
\* pairwise distinct record ids.
AllAddedTo(k) ==
    /\ \A t \in Threads : At(t, "AddMessage", "done") /\ threads[t].key = k
    /\ \A t, u \in Threads : t # u => threads[t].msg.ID # threads[u].msg.ID

\* C10: when NumThreads goroutines call AddMessage concurrently on the same
\* channel id, not created before, with pairwise distinct record ids, then
\* once all have returned: every call returned nil, one channel object was
\* created and holds the effect of every insert exactly once, and
\* GetMessages has length min(NumThreads, capacity).
C10_ConcurrentInsertsAllStored ==
    \A k \in Keys :
        AllAddedTo(k) =>
            /\ \A t \in Threads : threads[t].err = ErrNone
            /\ k \in DOMAIN dir /\ Len(heap) = 1
            /\ \A t \in Threads : threads[t].cc = dir[k]
            /\ LET ch == heap[dir[k]]
                   got == GetMessagesOf(ch)
                   sent == {threads[t].msg : t \in Threads}
               IN /\ Len(got) = Min(NumThreads, maxMessages)
                  /\ \A i \in 1..Len(got) : got[i] \in sent
                  /\ \A i, j \in 1..Len(got) : i # j => got[i] # got[j]
                  /\ IdsOf(got) \subseteq ch.messageIDs
                  /\ NumThreads <= maxMessages => {got[i] : i \in 1..Len(got)} = sent

\* All goroutines found the channel missing on the first lookup, raced to
\* create it, and have all returned.
C10_Witness ==
    /\ AllAddedTo("a")
    /\ \A t \in Threads : ~threads[t].exists
    /\ Len(GetMessagesOf(heap[dir["a"]])) = Min(NumThreads, maxMessages)

\* Goroutine t has returned from a fetch of the kind the claims below are
\* about, without error.
Fetched(t) ==
    /\ threads[t].pc = "done"
    /\ threads[t].op \in {"GetMessages", "GetMessagesLimit"}
    /\ threads[t].err = ErrNone

\* What a fetch by goroutine t returns when the channel's content is c.
Expected(t, c) ==
    IF threads[t].op = "GetMessagesLimit"
    THEN LastN(c, Min(threads[t].n, Len(c)))
    ELSE c

\* C11: the slice GetMessages or GetMessagesLimit has returned holds (the
\* requested suffix of) the content its channel had at one instant between
\* the call and the return, whatever other goroutines did meanwhile.
C11_FetchIsLinearizable ==
    \A t \in Threads :
        Fetched(t) => \E c \in obs[t].seen : threads[t].got = Expected(t, c)

\* Goroutine w has returned from AddMessages with a batch of several records
\* on the channel goroutine r fetched from, and no other goroutine has made
\* a call.
BatchAndFetch(w, r) ==
    /\ Fetched(r)
    /\ threads[w].pc = "done" /\ threads[w].op = "AddMessages"
    /\ threads[w].err = ErrNone /\ Len(threads[w].batch) > 1
    /\ threads[w].key = threads[r].key
    /\ \A u \in Threads \ {w, r} : threads[u].pc = "idle"

\* C12: a fetch that runs while AddMessages inserts a batch into the same
\* channel returns the channel's content as it was before the batch or as
\* it is after the whole batch.
C12_BatchIsAtomic ==
    \A w, r \in Threads :
        BatchAndFetch(w, r) =>
            \/ threads[r].got = Expected(r, threads[w].pre)
            \/ threads[r].got = Expected(r, threads[w].post)

\* Every call made after the fetch of goroutine t had returned: the other
\* goroutines are idle or began their call after that return.
OnlyLaterCalls(t) ==
    \A u \in Threads \ {t} : threads[u].pc = "idle" \/ t \in obs[u].after

\* C13: the slice GetMessages or GetMessagesLimit has returned keeps the
\* elements it had when the call returned, whatever calls are made on the
\* cache afterwards.
C13_ReturnedSliceIsSnapshot ==
    \A t \in Threads :
        Fetched(t) /\ OnlyLaterCalls(t) =>
            ResultValue(threads[t].result) = threads[t].got

\* C14: no call blocks for ever: as long as some goroutine has not returned,
\* some goroutine can take a step (the calls have no loops that a held lock
\* would not end, so a call fails to return only if the goroutines end up
\* waiting for each other's locks).
C14_SomeCallCanGoOn ==
    (\A t \in Threads : threads[t].pc = "done") \/ ENABLED NextRace

\* The locks goroutine t holds or has asked for.
HoldsDir(t) == dirLock.writer = t \/ dirLock.readers[t] > 0
HoldsChan(t) ==
    \E o \in DOMAIN chanLock : chanLock[o].writer = t \/ chanLock[o].readers[t] > 0
AwaitsChan(t) == \E o \in DOMAIN chanLock : t \in chanLock[o].waiting

\* Where the next statement of a goroutine is c.RLock() or c.Lock(), or the
\* goroutine waits in c.Lock().
DirLockCalls ==
    {"RLock", "Lock", "locking", "B_RLock", "B_Lock", "B_locking", "G_RLock",
     "U_RLock", "L_RLock", "X_RLock", "S_Lock", "S_locking"}

\* Goroutine t asks for a channel's lock while it holds the directory's.
DirThenChan(t) == HoldsDir(t) /\ ~HoldsChan(t) /\ AwaitsChan(t)

\* Goroutine t asks for the directory's lock while it holds a channel's.
ChanThenDir(t) == HoldsChan(t) /\ ~HoldsDir(t) /\ threads[t].pc \in DirLockCalls

\* C15: the directory's lock and the channels' locks are nested in one
\* direction only: no goroutine takes a channel's lock inside the
\* directory's while another takes the directory's inside a channel's.
C15_OneNestingDirection ==
    ~ \E t, u \in Threads : DirThenChan(t) /\ ChanThenDir(u)

\* C16: no goroutine holds the directory's lock, shared or exclusive, while
\* it holds or asks for a channel's lock.
C16_DirectoryLockNotHeldAcross ==
    \A t \in Threads : ~(HoldsDir(t) /\ (HoldsChan(t) \/ AwaitsChan(t)))

\* Goroutine t has got its pointer from GetGlobalCache.
HasCache(t) == threads[t].pc \in {"got", "added", "done"}

\* C17: whatever the interleaving of the callers of GetGlobalCache, one
\* MessageCache object is built; every caller gets the pointer to it, after
\* it has been built with capacity 100 and an empty directory; and a fetch
\* through one caller's pointer returns the records the others have
\* inserted through theirs.
C17_GlobalCacheIsSingleton ==
    /\ Len(instances) <= 1
    /\ \A t \in Threads :
          HasCache(t) =>
              /\ threads[t].cache = 1 /\ globalCache = 1 /\ Len(instances) = 1
              /\ globalCacheOnce.done
              /\ instances[1].maxMessages = DefaultMaxMessages
              /\ \A k \in DOMAIN instances[1].channels :
                    instances[1].channels[k].maxMessages = DefaultMaxMessages
    /\ \A t \in Threads :
          threads[t].pc = "done" =>
              \A u \in threads[t].after :
                  \E i \in 1..Len(threads[t].got) :
                      threads[t].got[i].ID = threads[u].msg.ID

\* All goroutines found the done flag unset and went through Once.doSlow;
\* all have fetched, and one of them has fetched a record another inserted.
C17_Witness ==
    /\ \A t \in Threads : threads[t].pc = "done" /\ threads[t].slow
    /\ Len(instances) = 1
    /\ \E t, u \in Threads :
          /\ t # u /\ u \in threads[t].after
          /\ threads[t].msg.ID # threads[u].msg.ID
          /\ \E i \in 1..Len(threads[t].got) : threads[t].got[i] = threads[u].msg

\* The methods that take a channel id.
KeyedOps ==
    {"AddMessage", "AddMessages", "GetMessages", "GetMessagesUnsafe",
     "GetMessagesLimit", "ClearChannel"}

\* The cache as it is, returned with an error.
Refused(err) == Out(err, channels, maxMessages)

\* What every keyed method but AddMessage does with an empty channel id.
EmptyKeyElsewhere ==
    /\ \A ms \in Batches \cup {<< >>} :
           AddMessagesOut("", ms) = Refused(ErrInvalidChannel)
    /\ GetMessagesOut("") = Ret(ErrInvalidChannel, << >>)
    /\ GetMessagesUnsafeOut("") = Ret(ErrInvalidChannel, << >>)
    /\ \A limit \in (-1)..(MaxCap + 1) :
           GetMessagesLimitOut("", limit) = Ret(ErrInvalidChannel, << >>)
    /\ ClearChannelOut("") = Refused(ErrInvalidChannel)

EmptyKeyCall == call.op \in KeyedOps /\ call.key = ""

C19_NilMessageIsRefused ==
    /\ \A k \in Keys : AddMessageOut(k, Nil) = Refused(ErrNilMessage)
    /\ call.op = "AddMessage" /\ call.key # "" /\ call.msg = Nil =>
           ret.err = ErrNilMessage

\* AddMessage was given a nil record for a channel that does not exist,
\* while another channel holds records.
C19_Witness ==
    /\ call.op = "AddMessage" /\ call.msg = Nil /\ ret.err = ErrNilMessage
    /\ call.key \in Keys \ DOMAIN channels
    /\ \E k \in DOMAIN channels : channels[k].size > 0

\* C20: GetMessagesLimit with a channel id and a limit that is not positive
\* returns ErrInvalidLimit and no records, whether the channel exists or
\* not.
C20_InvalidLimitComesFirst ==
    /\ \A k \in Keys, limit \in {-1, 0} :
           GetMessagesLimitOut(k, limit) = Ret(ErrInvalidLimit, << >>)
    /\ call.op = "GetMessagesLimit" /\ call.key # "" /\ call.n <= 0 =>
           ret = Ret(ErrInvalidLimit, << >>)

\* GetMessagesLimit was given limit 0 for a channel that does not exist.
C20_Witness ==
    /\ call.op = "GetMessagesLimit" /\ call.n = 0
    /\ call.key \in Keys \ DOMAIN channels
    /\ ret.err = ErrInvalidLimit

\* C21: SetMaxMessages with a capacity that is not positive returns
\* ErrInvalidLimit and leaves the default capacity and every channel
\* (capacity, head, size, slots, ids) as they are.
C21_InvalidCapacityIsRefused ==
    /\ \A n \in {-1, 0} : SetMaxMessagesOut(n) = Refused(ErrInvalidLimit)
    /\ call.op = "SetMaxMessages" /\ call.n <= 0 =>
           /\ ret.err = ErrInvalidLimit
           /\ maxMessages > 0
           /\ \A k \in DOMAIN channels : channels[k].maxMessages > 0

\* SetMaxMessages(0) was called while a channel holds records.
C21_Witness ==
    /\ call.op = "SetMaxMessages" /\ call.n = 0
    /\ ret.err = ErrInvalidLimit
    /\ \E k \in DOMAIN channels : channels[k].size > 0

\* The slice without its nil elements.
WithoutNil(messages) == SelectSeq(messages, LAMBDA m : m # Nil)

\* C22: AddMessages skips nil elements without error: the call returns nil
\* and leaves the channel as AddMessages of the slice without its nil
\* elements does.
C22_NilElementsAreSkipped ==
    \A k \in Keys, ms \in NilBatches :
        AddMessagesOut(k, ms) = AddMessagesOut(k, WithoutNil(ms))

\* The channel after AddMessage of each record of the slice, in order.
RECURSIVE AddMessageEach(_, _)
AddMessageEach(ch, messages) ==
    IF messages = << >> THEN ch
    ELSE AddMessageEach(AddMessageLocked(ch, Head(messages)), Tail(messages))

\* C23: AddMessages of a slice of records leaves the channel (slots, head,
\* size, ids) as AddMessage of each record in order does.
C23_BatchIsSequenceOfInserts ==
    \A k \in InsertKeys, ms \in Batches :
        AddMessagesOut(k, ms).channels[k] = AddMessageEach(GetOrCreate(k), ms)

\* C24: AddMessages with a channel id and an empty slice returns nil and
\* does nothing: no channel changes and none is created, so GetMessages on
\* a channel that did not exist still returns ErrCacheMiss.
C24_EmptyBatchIsNoOp ==
    /\ \A k \in Keys : AddMessagesOut(k, << >>) = Refused(ErrNone)
    /\ call.op = "AddMessages" /\ call.key # "" /\ call.n = 0 =>
           ret.err = ErrNone

\* AddMessages was given an empty slice for a channel that does not exist
\* and GetMessages on that channel returns ErrCacheMiss.
C24_Witness ==
    /\ call.op = "AddMessages" /\ call.n = 0 /\ ret.err = ErrNone
    /\ call.key \in Keys \ DOMAIN channels
    /\ GetMessagesOut(call.key) = Ret(ErrCacheMiss, << >>)

\* A SetMaxMessages call has begun and has not returned.
Resizing == \E t \in Threads :
    threads[t].op = "SetMaxMessages" /\ threads[t].pc # "done"

\* C25: whenever no SetMaxMessages call is in progress, every channel of
\* the directory has the capacity that is the cache's maxMessages.
C25_CapacityIsDefault ==
    ~Resizing =>
        \A k \in DOMAIN dir : heap[dir[k]].maxMessages = maxMessages

\* C26: NewMessageCache(c) returns a cache without channels whose
\* maxMessages is 100 for c <= 0 and c for c > 0.
C26_NewCacheHasCapacity ==
    call.op = "NewMessageCache" =>
        /\ channels = NoChannels
        /\ IF IsPositive(call.n)
           THEN call.n = GoInt(0, maxMessages)
           ELSE maxMessages = DefaultMaxMessages

\* The methods that write one channel.
ChannelWrites == {"AddMessage", "AddMessages", "ClearChannel"}

\* Every goroutine other than t that has made a call has called a method
\* that writes one channel, with another channel id than t's.
OthersElsewhere(t) ==
    \A u \in Threads \ {t} :
        threads[u].pc # "idle" =>
            threads[u].op \in ChannelWrites /\ threads[u].key # threads[t].key

\* A step of a goroutine in AddMessage, AddMessages or ClearChannel leaves
\* every channel with another id in the directory, with the same buffer.
OtherChannelsKept ==
    \A t \in Threads :
        threads'[t] # threads[t] /\ threads'[t].op \in ChannelWrites =>
            \A k \in DOMAIN dir \ {threads'[t].key} :
                k \in DOMAIN dir' /\ dir'[k] = dir[k]
                    /\ heap'[dir'[k]] = heap[dir[k]]

\* A fetch by goroutine t, when the other goroutines write other channels
\* only, has seen one content of its channel and returned it.
FetchUndisturbed ==
    \A t \in Threads :
        Fetched(t) /\ OthersElsewhere(t) =>
            obs[t].seen = {Content(dir, heap, threads[t].key)}
                /\ threads[t].got = Expected(t, Content(dir, heap, threads[t].key))

\* C27: AddMessage, AddMessages and ClearChannel on one channel id leave the
\* buffer of every other channel as it is, and a fetch on another channel
\* returns that channel's content however their steps interleave with it.
C27_ChannelsAreIndependent == [][OtherChannelsKept]_vars /\ []FetchUndisturbed

\* A fetch on channel "a" has returned records after another goroutine
\* began a call that writes channel "b", which has created "b" and has not
\* returned.
C27_Witness ==
    \E t, u \in Threads :
        /\ Fetched(t) /\ threads[t].key = "a" /\ threads[t].got # << >>
        /\ threads[u].op \in ChannelWrites /\ threads[u].key = "b"
        /\ threads[u].pc \notin {"idle", "done"}
        /\ t \notin obs[u].after
        /\ "b" \in DOMAIN dir

\* A step keeps every channel id of the directory, with the same
\* ChannelCache object.
EntriesKept ==
    \A k \in DOMAIN dir : k \in DOMAIN dir' /\ dir'[k] = dir[k]

\* A call gets ErrCacheMiss only in a step in which its channel id is not
\* in the directory.
MissOnlyIfAbsent ==
    \A t \in Threads :
        threads'[t].err = ErrCacheMiss /\ threads[t].err # ErrCacheMiss =>
            threads'[t].key \notin DOMAIN dir

\* C28: a channel id of the directory stays in it with the same
\* ChannelCache object, whatever is called (ClearChannel, SetMaxMessages
\* and concurrent first inserts included), so that no fetch made after the
\* channel exists returns ErrCacheMiss.
C28_EntriesArePermanent == [][EntriesKept /\ MissOnlyIfAbsent]_vars

\* Two goroutines have both missed channel "b" on the fast path of
\* AddMessages and have both returned, having written the same object,
\* which is the one in the directory.
C28_Witness ==
    \E t, u \in Threads :
        /\ t # u
        /\ \A x \in {t, u} :
              /\ threads[x].op = "AddMessages" /\ threads[x].pc = "done"
              /\ threads[x].key = "b" /\ ~threads[x].exists
              /\ threads[x].cc = dir["b"]

\* C29: called one after another, GetMessagesUnsafe and GetMessages return
\* the same error and the same records in the same order, for every channel
\* id and every head and size of the buffer.
C29_UnsafeAgreesWithGetMessages ==
    /\ \A k \in AllKeys : GetMessagesUnsafeOut(k) = GetMessagesOut(k)
    /\ call.op = "GetMessagesUnsafe" => ret = GetMessagesOut(call.key)

\* GetMessagesUnsafe has returned the records of a full buffer whose head
\* is not slot 0.
C29_Witness ==
    /\ call.op = "GetMessagesUnsafe" /\ ret.err = ErrNone
    /\ call.key \in DOMAIN channels
    /\ channels[call.key].head # 0
    /\ channels[call.key].size = channels[call.key].maxMessages
    /\ Len(ret.msgs) > 1

\* C30: the variable Cache holds the pointer GetGlobalCache returns: the
\* goroutines that took their pointer from either hold the same one, and a
\* fetch through it returns the records inserted through the other.
C30_CacheIsGlobalCache ==
    Cache # 0 =>
        /\ Cache = globalCache
        /\ \A t \in Threads : HasCache(t) => threads[t].cache = Cache
        /\ \A t \in Threads :
              threads[t].pc = "done" =>
                  \A u \in threads[t].after :
                      \E i \in 1..Len(threads[t].got) :
                          threads[t].got[i].ID = threads[u].msg.ID

\* A goroutine that called GetGlobalCache has fetched a record that another
\* inserted through Cache, and the other has fetched the record this one
\* inserted.
C30_Witness ==
    \E t, u \in Threads :
        /\ threads[t].pc = "done" /\ threads[t].via = "GetGlobalCache"
        /\ threads[u].pc = "done" /\ threads[u].via = "Cache"
        /\ threads[t].msg.ID # threads[u].msg.ID
        /\ \E i \in 1..Len(threads[t].got) : threads[t].got[i] = threads[u].msg
        /\ \E i \in 1..Len(threads[u].got) : threads[u].got[i] = threads[t].msg


\* C31: every buffer has a positive capacity, a slot array of that length,
\* 0 <= head < capacity and 0 <= size <= capacity, and GetMessages returns
\* slots[(head + i) mod capacity] for i in [0, size).
C31_BufferIsWellFormed ==
    \A k \in DOMAIN channels :
        LET ch == channels[k] IN
        /\ ch.maxMessages > 0
        /\ DOMAIN ch.messages = 0..(ch.maxMessages - 1)
        /\ ch.head \in 0..(ch.maxMessages - 1)
        /\ ch.size \in 0..ch.maxMessages
        /\ GetMessagesOf(ch) = Window(ch)


\* No two records of a sequence have the same id.
DistinctIds(seq) ==
    \A i, j \in 1..Len(seq) : i < j => seq[i].ID # seq[j].ID

WindowIdsAreDistinctInHeap ==
    \A o \in DOMAIN heap : DistinctIds(Window(heap[o]))


\* C33: GetMessagesLimit(k, L) returns at most L records, also when other
\* goroutines insert into channel k while the call runs.
C33_LimitIsRespected ==
    \A t \in Threads :
        (/\ threads[t].pc = "done"
         /\ threads[t].op = "GetMessagesLimit"
         /\ threads[t].err = ErrNone) =>
            Len(threads[t].got) <= threads[t].n


\* The newest record of channel k in a directory.
Newest(chans, k) == LET w == Window(chans[k]) IN w[Len(w)]

\* Inserting record m into channel k, by AddMessage or by AddMessages,
\* stores it as the newest record.
StoredAsNewest(k, m) ==
    /\ AddMessageOut(k, m).err = ErrNone
    /\ AddMessageOut(k, m).channels[k].size > 0
    /\ Newest(AddMessageOut(k, m).channels, k) = m
    /\ AddMessagesOut(k, <<m>>).err = ErrNone
    /\ AddMessagesOut(k, <<m>>).channels[k].size > 0
    /\ Newest(AddMessagesOut(k, <<m>>).channels, k) = m

\* C34: the ids of the records a shrinking SetMaxMessages dropped are free
\* again: an insert of a dropped id is stored as the newest record, while
\* an insert of an id the shrink kept changes nothing.
C34_ShrinkReleasesDroppedIds ==
    \A k \in DOMAIN channels :
        /\ \A m \in Messages : m.ID \in dropped[k] => StoredAsNewest(k, m)
        /\ (call.op = "SetMaxMessages" /\ ret.err = ErrNone) =>
              \A m \in Messages :
                  m.ID \in IdsOf(Window(channels[k])) =>
                      /\ AddMessageOut(k, m) = Out(ErrNone, channels, maxMessages)
                      /\ AddMessagesOut(k, <<m>>) = Out(ErrNone, channels, maxMessages)

\* SetMaxMessages has just shrunk a full channel: it dropped a record whose
\* id is free and kept one whose id is not.
C34_Witness ==
    \E k \in DOMAIN channels :
        /\ call.op = "SetMaxMessages" /\ ret.err = ErrNone
        /\ channels[k].size = channels[k].maxMessages
        /\ \E m \in Messages :
              /\ m.ID \in dropped[k] /\ m.ID \notin channels[k].messageIDs
              /\ StoredAsNewest(k, m)
        /\ \E m \in Messages :
              /\ m.ID \in IdsOf(Window(channels[k]))
              /\ AddMessageOut(k, m).channels = channels


\* The ids removed from channel k, by ClearChannel, by an insert into the
\* full buffer or by a shrinking SetMaxMessages, and not stored again since.
Removed(k) == cleared[k] \cup evicted[k] \cup dropped[k]

\* C35: a record removed from a channel, by ClearChannel, by eviction or by
\* a shrink, is in the result of no later GetMessages, GetMessagesUnsafe or
\* GetMessagesLimit on that channel unless it has been inserted again, although
\* the slot array may still refer to it.
C35_RemovedRecordsStayRemoved ==
    \A k \in DOMAIN channels :
        /\ IdsOf(GetMessagesOut(k).msgs) \cap Removed(k) = {}
        /\ IdsOf(GetMessagesUnsafeOut(k).msgs) \cap Removed(k) = {}
        /\ \A limit \in 1..(MaxCap + 1) :
              IdsOf(GetMessagesLimitOut(k, limit).msgs) \cap Removed(k) = {}
        /\ (call.op \in Fetches /\ call.key = k) =>
              IdsOf(ret.msgs) \cap Removed(k) = {}

\* A fetch returns records from a channel that was cleared and whose slot
\* array still refers to a record removed by the clear.
C35_Witness ==
    \E k \in DOMAIN channels :
        /\ call.op \in Fetches /\ call.key = k /\ ret.err = ErrNone
        /\ ret.msgs # << >>
        /\ \E i \in DOMAIN channels[k].messages :
              channels[k].messages[i].ID \in cleared[k]


\* C36: after NewMessageCache(n) or SetMaxMessages(n) with n > 0 the default
\* capacity is n: a channel created afterwards has that capacity, which is
\* positive, and the insert that creates it does not fault.
C36_DefaultCapacityIsArgument ==
    /\ (call.op = "NewMessageCache" /\ IsPositive(call.n)) =>
          call.n = GoInt(0, maxMessages)
    /\ (call.op = "SetMaxMessages" /\ ret.err = ErrNone) =>
          maxMessages = call.n
    /\ \A k \in InsertKeys \ DOMAIN channels, m \in Messages :
          /\ AddMessageOut(k, m).err = ErrNone
          /\ AddMessageOut(k, m).channels[k].maxMessages = maxMessages
          /\ maxMessages > 0


\* Two buffers with the same logical content, capacity and recorded ids.
SameObservable(c1, c2) ==
    /\ Window(c1) = Window(c2)
    /\ c1.maxMessages = c2.maxMessages
    /\ c1.messageIDs = c2.messageIDs

\* C37: SetMaxMessages(n) made twice leaves every channel with the logical
\* content, the capacity and the recorded ids that SetMaxMessages(n) made
\* once leaves, and the same default capacity; SetMaxMessages with the
\* capacity a channel has leaves its logical content as it is.
C37_ResizeIsIdempotent ==
    \A n \in 1..(MaxCap + 1) :
        LET once == SetMaxMessagesOut(n)
            twice == SetMaxMessagesOn(once.channels, n)
        IN /\ once.err = ErrNone
           /\ \A k \in DOMAIN channels :
                 /\ SameObservable(twice[k], once.channels[k])
                 /\ n = channels[k].maxMessages =>
                       /\ Window(once.channels[k]) = Window(channels[k])
                       /\ GetMessagesOf(once.channels[k]) = GetMessagesOf(channels[k])

\* SetMaxMessages has just shrunk a channel that keeps records, and a second
\* call with the same capacity leaves the cache as it is.
C37_Witness ==
    \E k \in DOMAIN channels :
        /\ call.op = "SetMaxMessages" /\ ret.err = ErrNone
        /\ channels[k].size > 0 /\ dropped[k] # {}
        /\ SetMaxMessagesOut(call.n) = Out(ErrNone, channels, maxMessages)


\* What GetMessages of the cache returns for channel k, in the form of the
\* old cache's result: whether there is a sequence, and the sequence.
NewGetMessages(k) ==
    [ok |-> GetMessagesOut(k).err = ErrNone, msgs |-> GetMessagesOut(k).msgs]

\* C38: after any sequence of AddMessage and AddMessages calls with non-nil
\* records of pairwise distinct ids and SetMaxMessages calls with positive
\* values, on a MessageCache and an OldMessageCache built with the same
\* positive capacity, GetMessages returns the same sequence from both for
\* every channel.
C38_SameAsOldMessageCache ==
    Comparable =>
        \A k \in AllKeys : NewGetMessages(k) = OldGetMessages(oldCache, k)

====
